---- MODULE Spec2Model ----
(***************************************************************************)
(* Model of the parallel, checkpointed backtest engine of                  *)
(* backtestSimulator.js (coordinator runBacktest, worker                   *)
(* runBacktestWorker, CircularBuffer) and of the bet ledger of             *)
(* profitTracker.js (recordBets, getSummary).                              *)
(*                                                                         *)
(* The three numeric program constants are scaled down so that every      *)
(* case of the code (several batches per partition, a mid-batch flush, a   *)
(* full price window, the periodic clear) happens on a handful of rounds:  *)
(*   BATCH_SIZE 500 -> 4, GC_INTERVAL 5000 -> 3, window size 100 -> 2.     *)
(* Their relations are kept: the flush threshold is BATCH_SIZE / 2, the    *)
(* window is smaller than a batch.                                         *)
(*                                                                         *)
(* Stakes are integers in units of 0.001 BNB and profits are in hundredths *)
(* of that unit, so that betSize * 0.95 is exact.                          *)
(***************************************************************************)
EXTENDS Integers, Sequences, FiniteSets, Bags, TLC

\* ---------------------------------------------------------------- constants
BATCH_SIZE == 4
GC_INTERVAL == 3
WINDOW_SIZE == 2
betMin == 1
betMax == 9
minConfidence == -3000
maxConfidence == 3000
bearConfidence == -100
bullConfidence == 100
MIN_PRICES == 100
FEATURE_WINDOW == 50
\* MAX_RAM_USAGE 0.7, in percent
MAX_RAM_USAGE == 70

\* ------------------------------------------------------------------- bounds
MaxRounds == 6
MaxCPUs == 2
MaxFaults == 1
MaxRuns == 2
MaxTotalRounds == 12
MaxParallel == 5
MaxCapacity == 3
MaxPushes == 5
MaxScoreSteps == 16
MaxSeqLen == 8
MaxPeriod == 3
MaxExtraPrices == 1

\* The decision rule is run on every score of 0 .. MaxGridScore thousandths
\* on either side of 0.
MaxGridScore == 150

WorkerIds == 1..MaxCPUs
Patterns == {"rise", "fall", "zigzag", "flatRise"}

VARIABLES rounds, numCPUs, progress, ledger, coord, wk, faults, runs, pt, fx

vars == <<rounds, numCPUs, progress, ledger, coord, wk, faults, runs, pt, fx>>

\* The state of the backtest run; fx holds the input and the result of one
\* function when a function is exercised on its own.
runVars == <<rounds, numCPUs, progress, ledger, coord, wk, faults, runs, pt>>

Min(a, b) == IF a < b THEN a ELSE b
Abs(a) == IF a < 0 THEN -a ELSE a

\* ------------------------------------------------------------- RoundSource
\* The rounds table of historicalData.db: roundId ascending, one starting
\* price per round; the ending price is the next round's starting price and
\* is missing (0, falsy) for the newest round.
PriceAt(pattern, o) ==
    CASE pattern = "rise" -> 10 + o
      [] pattern = "fall" -> 30 - o
      [] pattern = "zigzag" -> 10 + (o % 2)
      [] OTHER -> IF o < BATCH_SIZE THEN 10 ELSE 10 + (o - BATCH_SIZE) + 1

RoundTable(pattern, n) ==
    [k \in 1..n |->
        [roundId |-> 100 + k,
         price |-> PriceAt(pattern, k - 1),
         endingPrice |-> IF k < n THEN PriceAt(pattern, k) ELSE 0]]

\* ---------------------------------------------------------- CircularBuffer
CircularBuffer(size) ==
    [size |-> size, buffer |-> [i \in 0..(size - 1) |-> 0], pointer |-> 0, length |-> 0]

push(ph, item) ==
    [ph EXCEPT !.buffer = [ph.buffer EXCEPT ![ph.pointer] = item],
               !.pointer = (ph.pointer + 1) % ph.size,
               !.length = IF ph.length < ph.size THEN ph.length + 1 ELSE ph.length]

\* (variant: read from slot 0, as if the buffer never wrapped)
toArrayFromSlotZero(ph) ==
    [i \in 1..ph.length |-> ph.buffer[(i - 1) % ph.size]]

toArray(ph) ==
    LET start == (ph.pointer - ph.length + ph.size) % ph.size
    IN  [i \in 1..ph.length |-> ph.buffer[(start + (i - 1)) % ph.size]]

clear(ph) == CircularBuffer(ph.size)

\* -------------------------------------------------------- PredictionEngine
\* getPrediction as the worker sees it: a deterministic function of the
\* price window.  Below a full window it returns no direction (line 117-121);
\* on a full window the ensemble and the indicators are stood in for by a
\* momentum rule over the window, which keeps the two things the worker
\* depends on: the decision is a function of the window contents alone, and
\* it can be bull, bear or none with a stake of at least betMin.
null == "null"

EngineDecision(priceBuffer) ==
    LET d == priceBuffer[Len(priceBuffer)] - priceBuffer[1]
    IN  [prediction |-> IF d > 0 THEN "bull" ELSE IF d < 0 THEN "bear" ELSE null,
         betSize |-> Min(betMin + Abs(d), betMax)]

getPrediction(priceBuffer) ==
    IF Len(priceBuffer) < WINDOW_SIZE
    THEN [prediction |-> null, betSize |-> betMin]
    ELSE EngineDecision(priceBuffer)

\* ------------------------------------------------------ worker: one round
NoBet == <<>>

\* Lines 138-153: the bet record of a round under a decision.
MakeBet(row, dec) ==
    LET startingPrice == row.price
        endingPrice == IF row.endingPrice # 0 THEN row.endingPrice ELSE row.price
        realized == IF endingPrice > startingPrice THEN "bull" ELSE "bear"
        outcome == IF dec.prediction = realized THEN "win" ELSE "lose"
    IN  [epoch |-> row.roundId,
         prediction |-> dec.prediction,
         betSize |-> dec.betSize,
         outcome |-> outcome,
         profitBNB |-> IF outcome = "win" THEN dec.betSize * 95 ELSE -(dec.betSize * 100),
         roundId |-> row.roundId,
         startingPrice |-> startingPrice]

\* Lines 134-157: push the price, predict on a full window, build the record.
\* Returns the new window and the sequence of records (empty or one) to add.
RowStep(ph, row) ==
    LET ph2 == push(ph, row.price)
        dec == getPrediction(toArray(ph2))
    IN  [priceHistory |-> ph2,
         bets |-> IF ph2.length = WINDOW_SIZE /\ dec.prediction # null /\ dec.betSize > 0
                  THEN <<MakeBet(row, dec)>>
                  ELSE NoBet]

\* --------------------------------------------------------------- BetLedger
RECURSIVE SeqToBag(_)
SeqToBag(s) ==
    IF s = <<>> THEN EmptyBag ELSE SetToBag({Head(s)}) (+) SeqToBag(Tail(s))

RemoveAt(s, i) == SubSeq(s, 1, i - 1) \o SubSeq(s, i + 1, Len(s))

\* recordBets (profitTracker.js 52-82): BEGIN, one INSERT per bet, finalize,
\* then COMMIT or ROLLBACK.  An INSERT that fails rejects the promise but the
\* loop and the COMMIT go on, so the other rows of the batch are committed;
\* a finalize error rolls the batch back; a COMMIT error leaves nothing
\* committed.  Each outcome is the pair (promise rejected?, rows committed).
\* (variant: the first record of a batch is not inserted)
recordBetsDropsFirst(bets, storageFails) ==
    {[rejected |-> FALSE, committed |-> IF Len(bets) > 0 THEN Tail(bets) ELSE bets]}

recordBets(bets, storageFails) ==
    {[rejected |-> FALSE, committed |-> bets]}
        \cup (IF storageFails
              THEN {[rejected |-> TRUE, committed |-> RemoveAt(bets, i)] : i \in 1..Len(bets)}
                       \cup {[rejected |-> TRUE, committed |-> <<>>]}
              ELSE {})

RECURSIVE SumProfit(_, _)
SumProfit(bag, S) ==
    IF S = {} THEN 0
    ELSE LET b == CHOOSE x \in S : TRUE
         IN  CopiesIn(b, bag) * b.profitBNB + SumProfit(bag, S \ {b})

RECURSIVE CountOutcome(_, _, _)
CountOutcome(bag, S, outcome) ==
    IF S = {} THEN 0
    ELSE LET b == CHOOSE x \in S : TRUE
         IN  (IF b.outcome = outcome THEN CopiesIn(b, bag) ELSE 0)
                 + CountOutcome(bag, S \ {b}, outcome)

\* SQL SUM(...) over the rows of the table: NULL when there is no row.
sqlSum(bag, total) == [isNull |-> bag = EmptyBag, n |-> total]

\* x || 0 on what SUM returns: NULL and 0 both give 0.
orZero(x) == IF x.isNull \/ x.n = 0 THEN 0 ELSE x.n

\* (variant: the losses are looked up under another spelling of the outcome)
getSummaryOtherSpelling(bag) ==
    [totalBets |-> BagCardinality(bag),
     totalWins |-> sqlSum(bag, CountOutcome(bag, BagToSet(bag), "win")),
     totalLosses |-> sqlSum(bag, CountOutcome(bag, BagToSet(bag), "loss")),
     totalProfitBNB |-> orZero(sqlSum(bag, SumProfit(bag, BagToSet(bag))))]

\* getSummary (profitTracker.js 109-130).  totalWins and totalLosses are
\* passed on as SUM returns them.
getSummary(bag) ==
    [totalBets |-> BagCardinality(bag),
     totalWins |-> sqlSum(bag, CountOutcome(bag, BagToSet(bag), "win")),
     totalLosses |-> sqlSum(bag, CountOutcome(bag, BagToSet(bag), "lose")),
     totalProfitBNB |-> orZero(sqlSum(bag, SumProfit(bag, BagToSet(bag))))]

NoSummary ==
    [totalBets |-> -1, totalWins |-> [isNull |-> TRUE, n |-> 0],
     totalLosses |-> [isNull |-> TRUE, n |-> 0], totalProfitBNB |-> 0]

\* --------------------------------------------------------- CheckpointStore
\* One row of backtest_progress per worker id (primary key).
NoRow == [present |-> FALSE, lastProcessedOffset |-> 0, endOffset |-> 0, processedCount |-> 0]

ProgressRow(offset, endOffset, processedCount) ==
    [present |-> TRUE, lastProcessedOffset |-> offset, endOffset |-> endOffset,
     processedCount |-> processedCount]

\* Line 190-194: DELETE FROM backtest_progress WHERE workerId = ?
\* (variant: the DELETE is left out)
DeleteRowForgotten(store, id) == store

\* (variant: the DELETE has no WHERE clause)
DeleteRowUnkeyed(store, id) == [j \in DOMAIN store |-> NoRow]

DeleteRow(store, id) == [store EXCEPT ![id] = NoRow]

\* ------------------------------------------------------------- coordinator
\* Lines 248-249 and 268-271: the i-th partition of the even split.
roundsPerWorker(totalRounds, cpus) == (totalRounds + cpus - 1) \div cpus

Partition(i, totalRounds, cpus) ==
    [startOffset |-> i * roundsPerWorker(totalRounds, cpus),
     endOffset |-> Min((i + 1) * roundsPerWorker(totalRounds, cpus), totalRounds),
     workerId |-> i + 1]

\* Line 229-234: SELECT * FROM backtest_progress.
IncompleteWork(store) ==
    {[workerId |-> id, lastProcessedOffset |-> store[id].lastProcessedOffset,
      endOffset |-> store[id].endOffset] : id \in {j \in DOMAIN store : store[j].present}}

\* Lines 253-278: the workerData of every worker the coordinator launches.
\* (variant: the even split is used whether or not checkpoints exist)
LaunchPlanAlwaysSplit(incompleteWork, totalRounds, cpus) ==
    {Partition(i, totalRounds, cpus) : i \in 0..(cpus - 1)}

LaunchPlan(incompleteWork, totalRounds, cpus) ==
    IF incompleteWork # {}
    THEN {[startOffset |-> work.lastProcessedOffset, endOffset |-> work.endOffset,
           workerId |-> work.workerId] : work \in incompleteWork}
    ELSE {Partition(i, totalRounds, cpus) : i \in 0..(cpus - 1)}

\* Lines 280-282: Promise.all over one 'exit' promise per launched worker.
\* (variant: Promise.race, the first exit is enough)
AnyWorkerExited(launched, workers) ==
    launched = {} \/ \E d \in launched : workers[d.workerId].pc = "exited"

\* (variant: an exit is awaited from every worker slot, launched or not)
EveryWorkerExited(launched, workers) ==
    \A id \in DOMAIN workers : workers[id].pc = "exited"

AllWorkersExited(launched, workers) ==
    \A d \in launched : workers[d.workerId].pc = "exited"

\* ------------------------------------------------------------------ worker
NoFlush == [called |-> FALSE, batch |-> <<>>, rejected |-> FALSE, committed |-> <<>>]

IdleWorker ==
    [pc |-> "idle", startOffset |-> 0, endOffset |-> 0, offset |-> 0,
     processedCount |-> 0, lastProgress |-> NoRow,
     priceHistory |-> CircularBuffer(WINDOW_SIZE),
     betRecords |-> <<>>, rows |-> <<>>, rowIdx |-> 0,
     msgs |-> <<>>, exitCode |-> -1,
     \* history of the run, read by the properties only
     failed |-> FALSE, crashed |-> FALSE, started |-> FALSE, deleted |-> FALSE,
     fetched |-> {}, generated |-> {}, lastFlush |-> NoFlush,
     pushed |-> <<>>, predicted |-> {}, usageRatio |-> 0]

LaunchedWorker(d) ==
    [IdleWorker EXCEPT !.pc = "resume", !.startOffset = d.startOffset,
                       !.endOffset = d.endOffset, !.offset = d.startOffset]

\* Line 105: where the worker starts.
\* (variant: the other column of the row that was read is taken)
ResumeOffsetWrongColumn(lastProgress, startOffset) ==
    IF lastProgress.present THEN lastProgress.processedCount ELSE startOffset

ResumeOffset(lastProgress, startOffset) ==
    IF lastProgress.present THEN lastProgress.lastProcessedOffset ELSE startOffset

\* Line 126-129: LIMIT BATCH_SIZE OFFSET offset over rounds ordered by roundId.
\* (variant: the OFFSET is one too far)
FetchRowsFromNext(table, offset) ==
    SubSeq(table, offset + 2, Min(offset + 1 + BATCH_SIZE, Len(table)))

FetchRows(table, offset) ==
    SubSeq(table, offset + 1, Min(offset + BATCH_SIZE, Len(table)))

\* The catch block (200-204): post the error message, go to finally.
Caught(w) == [w EXCEPT !.pc = "finally", !.msgs = Append(@, "error"), !.failed = TRUE]

\* Where the for loop over rows goes after the row at rowIdx (133, 163-165).
NextRow(w) ==
    IF w.rowIdx < Len(w.rows)
    THEN [w EXCEPT !.pc = "rows", !.rowIdx = @ + 1]
    ELSE [w EXCEPT !.pc = "checkpoint"]

\* setupWorkerHandlers (296-314): what the coordinator does on a message, an
\* 'error' event or an 'exit' event of worker id.  Every handler only logs, so
\* the workers are left as they are.
\* (variant: a failure report or a non-zero exit terminates the other workers)
WorkerHandlersAbortSiblings(workers, id, event) ==
    IF event \in {"message:error", "exit:1"}
    THEN [j \in DOMAIN workers |->
            IF j # id /\ workers[j].pc \notin {"idle", "exited"}
            THEN [workers[j] EXCEPT !.pc = "exited", !.exitCode = 1]
            ELSE workers[j]]
    ELSE workers

WorkerHandlers(workers, id, event) == workers

\* The rounds (by roundId) that the workers of the current run pushed into
\* their price windows; coord.processed collects those of the earlier runs.
PushedRounds(workers) ==
    UNION {{workers[id].pushed[k] : k \in 1..Len(workers[id].pushed)} : id \in DOMAIN workers}

\* checkMemoryUsage (18-28) on heapUsed / totalmem in percent; the garbage
\* collection it may force changes nothing the program reads.
MemoryLevels == {60, 70, 80}

checkMemoryUsage(usageRatio) == usageRatio < MAX_RAM_USAGE

\* Lines 121-124: checkMemoryUsage() is false, the worker waits on the timer.
\* (variant: the pause gives up the batch it was about to fetch)
PausedSkipsBatch(w) == [w EXCEPT !.pc = "paused", !.offset = @ + BATCH_SIZE]

Paused(w) == [w EXCEPT !.pc = "paused"]

\* Lines 167-171: UPDATE backtest_progress SET lastProcessedOffset = ?,
\* processedCount = ? WHERE workerId = ?; no row, nothing updated.
\* (variant: the two values are bound in the other order)
UpdateRowSwapped(row, offset, processedCount) ==
    IF row.present
    THEN [row EXCEPT !.lastProcessedOffset = processedCount, !.processedCount = offset]
    ELSE row

UpdateRow(row, offset, processedCount) ==
    IF row.present
    THEN [row EXCEPT !.lastProcessedOffset = offset, !.processedCount = processedCount]
    ELSE row

\* ----------------------------------------------------------------- actions
PtIdle == [totalRounds |-> 0, cpus |-> 0, i |-> 0, workers |-> <<>>]

FxIdle == [op |-> "none"]

Init ==
    /\ \E pattern \in Patterns, n \in 1..MaxRounds : rounds = RoundTable(pattern, n)
    /\ numCPUs \in 1..MaxCPUs
    /\ progress = [id \in WorkerIds |-> NoRow]
    /\ ledger = EmptyBag
    /\ coord = [pc |-> "start", incompleteWork |-> {}, launched |-> {}, summary |-> NoSummary,
                processed |-> {}]
    /\ wk = [id \in WorkerIds |-> IdleWorker]
    /\ faults = 0
    /\ runs = 1
    /\ pt = PtIdle
    /\ fx = FxIdle

\* runBacktest 229-278: read the unfinished checkpoints and the round count,
\* then create every worker (no await in between).  The storage faults of
\* the model are those of the workers; the coordinator's own two reads
\* succeed.
CoordStart ==
    /\ coord.pc = "start"
    /\ LET work == IncompleteWork(progress)
           plan == LaunchPlan(work, Len(rounds), numCPUs)
       IN  /\ coord' = [coord EXCEPT !.pc = "waiting", !.incompleteWork = work,
                                     !.launched = plan]
           /\ wk' = [id \in WorkerIds |->
                        IF \E d \in plan : d.workerId = id
                        THEN LaunchedWorker(CHOOSE d \in plan : d.workerId = id)
                        ELSE IdleWorker]
    /\ UNCHANGED <<rounds, numCPUs, progress, ledger, faults, runs, pt, fx>>

\* runBacktest 280-289: after every 'exit' event, query the summary.
CoordSummary ==
    /\ coord.pc = "waiting"
    /\ AllWorkersExited(coord.launched, wk)
    /\ coord' = [coord EXCEPT !.pc = "summary", !.summary = getSummary(ledger)]
    /\ UNCHANGED <<rounds, numCPUs, progress, ledger, wk, faults, runs, pt, fx>>

\* The operator starts the program again after an interrupted run: the two
\* databases are what is left of the previous run.
Restart ==
    /\ coord.pc = "summary"
    /\ runs < MaxRuns
    /\ \E id \in WorkerIds : progress[id].present
    /\ runs' = runs + 1
    /\ coord' = [pc |-> "start", incompleteWork |-> {}, launched |-> {}, summary |-> NoSummary,
                 processed |-> coord.processed \cup PushedRounds(wk)]
    /\ wk' = [id \in WorkerIds |-> IdleWorker]
    /\ UNCHANGED <<rounds, numCPUs, progress, ledger, faults, pt, fx>>

\* 99-106: read this worker's checkpoint and pick the starting offset.
Resume(id) ==
    /\ wk[id].pc = "resume"
    /\ LET lastProgress == progress[id]
       IN  wk' = [wk EXCEPT ![id] =
                    [@ EXCEPT !.lastProgress = lastProgress,
                              !.offset = ResumeOffset(lastProgress, wk[id].startOffset),
                              !.processedCount = IF lastProgress.present
                                                 THEN lastProgress.processedCount ELSE 0,
                              !.started = lastProgress.present,
                              !.pc = IF lastProgress.present THEN "loop" ELSE "insert"]]
    /\ UNCHANGED <<rounds, numCPUs, progress, ledger, coord, faults, runs, pt, fx>>

\* 108-114: no checkpoint yet, insert one.
InsertCheckpoint(id) ==
    /\ wk[id].pc = "insert"
    /\ progress' = [progress EXCEPT ![id] =
                        ProgressRow(wk[id].offset, wk[id].endOffset, wk[id].processedCount)]
    /\ wk' = [wk EXCEPT ![id] = [@ EXCEPT !.pc = "loop", !.started = TRUE]]
    /\ UNCHANGED <<rounds, numCPUs, ledger, coord, faults, runs, pt, fx>>

\* 120-123: the loop test passes and checkMemoryUsage() is false: the worker
\* starts the one-second timer.  The memory in use is the runtime's;
\* usageRatio keeps the last reading.
MemoryPause(id) ==
    /\ wk[id].pc = "loop"
    /\ wk[id].offset < wk[id].endOffset
    /\ \E u \in MemoryLevels :
        /\ ~checkMemoryUsage(u)
        /\ wk' = [wk EXCEPT ![id] = Paused([@ EXCEPT !.usageRatio = u])]
    /\ UNCHANGED <<rounds, numCPUs, progress, ledger, coord, faults, runs, pt, fx>>

\* 122-123: the timer fires, continue goes back to the loop test.
MemoryRetry(id) ==
    /\ wk[id].pc = "paused"
    /\ wk' = [wk EXCEPT ![id] = [@ EXCEPT !.pc = "loop"]]
    /\ UNCHANGED <<rounds, numCPUs, progress, ledger, coord, faults, runs, pt, fx>>

\* 120-131: fetch the next batch; an empty batch leaves the loop.
Fetch(id) ==
    /\ wk[id].pc = "loop"
    /\ wk[id].offset < wk[id].endOffset
    /\ \E u \in MemoryLevels :
        /\ checkMemoryUsage(u)
        /\ LET rows == FetchRows(rounds, wk[id].offset)
           IN  wk' = [wk EXCEPT ![id] =
                        IF Len(rows) = 0
                        THEN [@ EXCEPT !.rows = rows, !.pc = "drain", !.usageRatio = u]
                        ELSE [@ EXCEPT !.rows = rows, !.rowIdx = 1, !.pc = "rows",
                                       !.usageRatio = u,
                                       !.fetched = @ \cup {wk[id].offset + (k - 1) :
                                                              k \in 1..Len(rows)}]]
    /\ UNCHANGED <<rounds, numCPUs, progress, ledger, coord, faults, runs, pt, fx>>

\* 133-159: one iteration of the for loop up to the flush test.  step is
\* what the iteration computes from the row, w2 the worker after it.
ProcessRow(id) ==
    /\ wk[id].pc = "rows"
    /\ \E step \in {RowStep(wk[id].priceHistory, wk[id].rows[wk[id].rowIdx])} :
       \E w2 \in {[wk[id] EXCEPT
                     !.priceHistory = step.priceHistory,
                     !.betRecords = @ \o step.bets,
                     !.processedCount = @ + Len(step.bets),
                     !.generated = @ \cup {[offset |-> wk[id].offset + (wk[id].rowIdx - 1),
                                              bet |-> step.bets[k]] : k \in 1..Len(step.bets)},
                     !.pushed = Append(@, wk[id].rows[wk[id].rowIdx].roundId),
                     !.predicted = IF step.priceHistory.length = WINDOW_SIZE
                                   THEN @ \cup {wk[id].rows[wk[id].rowIdx].roundId}
                                   ELSE @]} :
          wk' = [wk EXCEPT ![id] =
                    IF 2 * Len(w2.betRecords) >= BATCH_SIZE
                    THEN [w2 EXCEPT !.pc = "flush"]
                    ELSE NextRow(w2)]
    /\ UNCHANGED <<rounds, numCPUs, progress, ledger, coord, faults, runs, pt, fx>>

\* 159-162: flush the buffered records in the middle of a batch.
Flush(id) ==
    /\ wk[id].pc = "flush"
    /\ \E out \in recordBets(wk[id].betRecords, faults < MaxFaults) :
        LET w == [wk[id] EXCEPT !.lastFlush = [called |-> TRUE, batch |-> wk[id].betRecords,
                                              rejected |-> out.rejected,
                                              committed |-> out.committed]]
        IN  /\ ledger' = ledger (+) SeqToBag(out.committed)
            /\ wk' = IF out.rejected
                     THEN WorkerHandlers([wk EXCEPT ![id] = Caught(w)], id, "message:error")
                     ELSE [wk EXCEPT ![id] = NextRow([w EXCEPT !.betRecords = <<>>])]
            /\ faults' = IF out.rejected THEN faults + 1 ELSE faults
    /\ UNCHANGED <<rounds, numCPUs, progress, coord, runs, pt, fx>>

\* 165-183: advance the offset, write the checkpoint, clear the window when
\* processedCount is a multiple of GC_INTERVAL.  The progress message of
\* 173-178 is only logged by the coordinator (297-303) and is left out.
Checkpoint(id) ==
    /\ wk[id].pc = "checkpoint"
    /\ LET w == wk[id]
           offset == w.offset + Len(w.rows)
       IN  /\ progress' = [progress EXCEPT ![id] = UpdateRow(@, offset, w.processedCount)]
           /\ wk' = [wk EXCEPT ![id] =
                        [w EXCEPT !.offset = offset, !.pc = "loop",
                                  !.priceHistory = IF w.processedCount % GC_INTERVAL = 0
                                                   THEN clear(@) ELSE @]]
    /\ UNCHANGED <<rounds, numCPUs, ledger, coord, faults, runs, pt, fx>>

\* 186-188: after the loop, flush what is still buffered.
\* (variant: the flush after the loop is left out)
DrainSkipsFlush(id) ==
    /\ \/ wk[id].pc = "drain"
       \/ wk[id].pc = "loop" /\ ~(wk[id].offset < wk[id].endOffset)
    /\ wk' = [wk EXCEPT ![id] = [@ EXCEPT !.pc = "delete"]]
    /\ UNCHANGED <<rounds, numCPUs, progress, ledger, coord, faults, runs, pt, fx>>

Drain(id) ==
    /\ \/ wk[id].pc = "drain"
       \/ wk[id].pc = "loop" /\ ~(wk[id].offset < wk[id].endOffset)
    /\ IF Len(wk[id].betRecords) > 0
       THEN \E out \in recordBets(wk[id].betRecords, faults < MaxFaults) :
              LET w == [wk[id] EXCEPT !.lastFlush = [called |-> TRUE,
                                                    batch |-> wk[id].betRecords,
                                                    rejected |-> out.rejected,
                                                    committed |-> out.committed]]
              IN  /\ ledger' = ledger (+) SeqToBag(out.committed)
                  /\ wk' = IF out.rejected
                           THEN WorkerHandlers([wk EXCEPT ![id] = Caught(w)], id, "message:error")
                           ELSE [wk EXCEPT ![id] = [w EXCEPT !.pc = "delete"]]
                  /\ faults' = IF out.rejected THEN faults + 1 ELSE faults
       ELSE /\ wk' = [wk EXCEPT ![id] = [@ EXCEPT !.pc = "delete"]]
            /\ UNCHANGED <<ledger, faults>>
    /\ UNCHANGED <<rounds, numCPUs, progress, coord, runs, pt, fx>>

\* 190-194: delete this worker's checkpoint.
DeleteCheckpoint(id) ==
    /\ wk[id].pc = "delete"
    /\ progress' = DeleteRow(progress, id)
    /\ wk' = [wk EXCEPT ![id] = [@ EXCEPT !.pc = "post", !.deleted = TRUE]]
    /\ UNCHANGED <<rounds, numCPUs, ledger, coord, faults, runs, pt, fx>>

\* 196-199: tell the coordinator the partition is done.
PostDone(id) ==
    /\ wk[id].pc = "post"
    /\ wk' = WorkerHandlers(
                [wk EXCEPT ![id] = [@ EXCEPT !.pc = "finally", !.msgs = Append(@, "done")]],
                id, "message:done")
    /\ UNCHANGED <<rounds, numCPUs, progress, ledger, coord, faults, runs, pt, fx>>

\* A read or write of one of the two databases fails (the promise of 99-103,
\* 109-113, 126-129, 167-171 or 190-194 rejects): control goes to the catch
\* block.  The failing statement changes nothing in the store.
StorageFail(id) ==
    /\ faults < MaxFaults
    /\ \/ wk[id].pc \in {"resume", "insert", "checkpoint", "delete"}
       \/ wk[id].pc = "loop" /\ wk[id].offset < wk[id].endOffset
    /\ wk' = WorkerHandlers([wk EXCEPT ![id] = Caught(@)], id, "message:error")
    /\ faults' = faults + 1
    /\ UNCHANGED <<rounds, numCPUs, progress, ledger, coord, runs, pt, fx>>

\* 205-208 and 320-325: the finally block closes both databases, the promise
\* of runBacktestWorker resolves (the catch block rethrows nothing), and the
\* worker thread ends on its own: its 'exit' event carries code 0.
WorkerExit(id) ==
    /\ wk[id].pc = "finally"
    /\ wk' = WorkerHandlers([wk EXCEPT ![id] = [@ EXCEPT !.pc = "exited", !.exitCode = 0]],
                             id, "exit:0")
    /\ UNCHANGED <<rounds, numCPUs, progress, ledger, coord, faults, runs, pt, fx>>

\* The worker thread dies at any point of its run (out of memory, killed):
\* nothing more is written, and its 'exit' event carries code 1.
Crash(id) ==
    /\ faults < MaxFaults
    /\ wk[id].pc \notin {"idle", "exited"}
    /\ wk' = WorkerHandlers(
                [wk EXCEPT ![id] = [@ EXCEPT !.pc = "exited", !.exitCode = 1, !.crashed = TRUE]],
                id, "exit:1")
    /\ faults' = faults + 1
    /\ UNCHANGED <<rounds, numCPUs, progress, ledger, coord, runs, pt, fx>>

Next ==
    \/ CoordStart
    \/ CoordSummary
    \/ Restart
    \/ \E id \in WorkerIds :
        \/ Resume(id)
        \/ InsertCheckpoint(id)
        \/ MemoryPause(id)
        \/ MemoryRetry(id)
        \/ Fetch(id)
        \/ ProcessRow(id)
        \/ Flush(id)
        \/ Checkpoint(id)
        \/ Drain(id)
        \/ DeleteCheckpoint(id)
        \/ PostDone(id)
        \/ StorageFail(id)
        \/ WorkerExit(id)
        \/ Crash(id)

Spec == Init /\ [][Next]_vars

\* --------------------------------- the run when the stores stay available
\* No thread dies and no statement on a database fails, but for a flush
\* (which raises faults).  Fairness: a timer that was started fires, and the
\* program does not wait for ever while one of its steps other than waiting
\* is possible again and again; this is what every thread being scheduled
\* and the memory check passing at some point after any number of pauses
\* give.
NextAvailable ==
    \/ CoordStart
    \/ CoordSummary
    \/ \E id \in WorkerIds :
        \/ Resume(id)
        \/ InsertCheckpoint(id)
        \/ MemoryPause(id)
        \/ MemoryRetry(id)
        \/ Fetch(id)
        \/ ProcessRow(id)
        \/ Flush(id)
        \/ Checkpoint(id)
        \/ Drain(id)
        \/ DeleteCheckpoint(id)
        \/ PostDone(id)
        \/ WorkerExit(id)

NonWaitingStep ==
    \/ CoordStart
    \/ CoordSummary
    \/ \E id \in WorkerIds :
        \/ Resume(id)
        \/ InsertCheckpoint(id)
        \/ Fetch(id)
        \/ ProcessRow(id)
        \/ Flush(id)
        \/ Checkpoint(id)
        \/ Drain(id)
        \/ DeleteCheckpoint(id)
        \/ PostDone(id)
        \/ WorkerExit(id)

Availability ==
    /\ SF_vars(NonWaitingStep)
    /\ WF_vars(\E id \in WorkerIds : MemoryRetry(id))

SpecAvailable == Init /\ [][NextAvailable]_vars /\ Availability

\* ------------------------------------------- the even split, on its own
\* The loop of lines 268-277 run for every round count and worker count of
\* the bounds, without the workers: pt.workers collects the workerData of
\* each iteration.
PartitionInit ==
    /\ \E n \in 1..MaxTotalRounds, c \in 1..MaxParallel :
         pt = [totalRounds |-> n, cpus |-> c, i |-> 0, workers |-> <<>>]
    /\ rounds = <<>>
    /\ numCPUs = 1
    /\ progress = [id \in WorkerIds |-> NoRow]
    /\ ledger = EmptyBag
    /\ coord = [pc |-> "start", incompleteWork |-> {}, launched |-> {}, summary |-> NoSummary,
                processed |-> {}]
    /\ wk = [id \in WorkerIds |-> IdleWorker]
    /\ faults = 0
    /\ runs = 1
    /\ fx = FxIdle

SplitLoop ==
    /\ pt.i < pt.cpus
    /\ pt' = [pt EXCEPT !.i = @ + 1,
                        !.workers = Append(@, Partition(pt.i, pt.totalRounds, pt.cpus))]
    /\ UNCHANGED <<rounds, numCPUs, progress, ledger, coord, wk, faults, runs, fx>>

PartitionNext == SplitLoop

SpecPartition == PartitionInit /\ [][PartitionNext]_vars

\* -------------------------------------------------------------- JS numbers
\* A JavaScript number is a finite value in thousandths (k = "num", v the
\* count of thousandths), NaN, or an infinity (k = "inf", v its sign).
\* Arithmetic follows IEEE 754 on the special values and rounds finite
\* results to the nearest thousandth.  A stake of 0.001 BNB is v = 1.
SCALE == 1000

Num(v) == [k |-> "num", v |-> v]

NaN == [k |-> "nan", v |-> 0]

Infinity(sign) == [k |-> "inf", v |-> sign]

isNaN(x) == x.k = "nan"

Sign(v) == IF v > 0 THEN 1 ELSE IF v < 0 THEN -1 ELSE 0

\* a / b rounded to the nearest integer, b # 0.
RoundDiv(a, b) == IF b < 0 THEN (2 * (-a) + (-b)) \div (2 * (-b)) ELSE (2 * a + b) \div (2 * b)

fNeg(x) == IF isNaN(x) THEN NaN ELSE [x EXCEPT !.v = -x.v]

fAdd(x, y) ==
    IF isNaN(x) \/ isNaN(y) THEN NaN
    ELSE IF x.k = "inf" THEN (IF y.k = "inf" /\ y.v # x.v THEN NaN ELSE x)
    ELSE IF y.k = "inf" THEN y
    ELSE Num(x.v + y.v)

fSub(x, y) == fAdd(x, fNeg(y))

fMul(x, y) ==
    IF isNaN(x) \/ isNaN(y) THEN NaN
    ELSE IF x.k = "inf" \/ y.k = "inf"
         THEN (IF Sign(x.v) * Sign(y.v) = 0 THEN NaN ELSE Infinity(Sign(x.v) * Sign(y.v)))
    ELSE Num(RoundDiv(x.v * y.v, SCALE))

fDiv(x, y) ==
    IF isNaN(x) \/ isNaN(y) THEN NaN
    ELSE IF x.k = "inf"
         THEN (IF y.k = "inf" THEN NaN ELSE Infinity(IF y.v < 0 THEN -x.v ELSE x.v))
    ELSE IF y.k = "inf" THEN Num(0)
    ELSE IF y.v = 0 THEN (IF x.v = 0 THEN NaN ELSE Infinity(Sign(x.v)))
    ELSE Num(RoundDiv(x.v * SCALE, y.v))

\* x < y; false when either is NaN.
fLt(x, y) ==
    /\ ~isNaN(x)
    /\ ~isNaN(y)
    /\ IF x.k = "inf" THEN x.v < 0 /\ ~(y.k = "inf" /\ y.v < 0)
       ELSE IF y.k = "inf" THEN y.v > 0
       ELSE x.v < y.v

fGt(x, y) == fLt(y, x)

mathMin(x, y) == IF isNaN(x) \/ isNaN(y) THEN NaN ELSE IF fLt(y, x) THEN y ELSE x

mathMax(x, y) == IF isNaN(x) \/ isNaN(y) THEN NaN ELSE IF fLt(x, y) THEN y ELSE x

mathAbs(x) == IF isNaN(x) THEN NaN ELSE IF x.k = "inf" THEN Infinity(1) ELSE Num(Abs(x.v))

\* Math.exp: e^x at the listed points (both in thousandths), linear in
\* between; below the first point the result rounds to 0, above the last it
\* is larger than anything the model divides by and stands as Infinity.
ExpNodes ==
    << <<-8000, 0>>, <<-7000, 1>>, <<-6000, 2>>, <<-5000, 7>>, <<-4000, 18>>,
       <<-3000, 50>>, <<-2500, 82>>, <<-2000, 135>>, <<-1500, 223>>, <<-1000, 368>>,
       <<-500, 607>>, <<0, 1000>>, <<500, 1649>>, <<1000, 2718>>, <<1500, 4482>>,
       <<2000, 7389>>, <<2500, 12182>>, <<3000, 20086>>, <<4000, 54598>>,
       <<5000, 148413>>, <<6000, 403429>>, <<7000, 1096633>>, <<8000, 2980958>> >>

mathExp(x) ==
    IF isNaN(x) THEN NaN
    ELSE IF x.k = "inf" THEN (IF x.v > 0 THEN Infinity(1) ELSE Num(0))
    ELSE IF x.v < ExpNodes[1][1] THEN Num(0)
    ELSE IF x.v > ExpNodes[Len(ExpNodes)][1] THEN Infinity(1)
    ELSE LET i == CHOOSE j \in 1..(Len(ExpNodes) - 1) :
                      ExpNodes[j][1] <= x.v /\ x.v <= ExpNodes[j + 1][1]
             lo == ExpNodes[i]
             hi == ExpNodes[i + 1]
         IN  Num(lo[2] + RoundDiv((x.v - lo[1]) * (hi[2] - lo[2]), hi[1] - lo[1]))

\* ----------------------------------------------------------------- BetSizer
\* mapScoreToBetSize (prediction.js 82-109).
\* (variant: the score reaches the exponential as it is)
clampedScoreUnclamped(score) == score

\* Line 90.
clampedScore(score) == mathMax(Num(minConfidence), mathMin(Num(maxConfidence), score))

\* (variant: without the isNaN fallback of lines 99-102)
mapScoreToBetSizeUnchecked(score) ==
    LET minBetNum == Num(betMin)
        maxBetNum == Num(betMax)
        normalized == fDiv(Num(SCALE), fAdd(Num(SCALE), mathExp(fNeg(clampedScore(score)))))
    IN  fAdd(minBetNum, fMul(normalized, fSub(maxBetNum, minBetNum)))

mapScoreToBetSize(score) ==
    LET minBetNum == Num(betMin)
        maxBetNum == Num(betMax)
        normalized == fDiv(Num(SCALE), fAdd(Num(SCALE), mathExp(fNeg(clampedScore(score)))))
        Checked(betSize) == IF isNaN(betSize) THEN minBetNum ELSE betSize
    IN  Checked(fAdd(minBetNum, fMul(normalized, fSub(maxBetNum, minBetNum))))

\* --------------------------------------------------------------- indicators
\* indicators.js on arrays of JS numbers.  Arrays are sequences; a JS index
\* i is position i + 1.  Where a value is used several times it is handed
\* to a local operator as an argument.
\* arr[i]: the element, or undefined, which every arithmetic use turns
\* into NaN.
At(arr, i) == IF 0 <= i /\ i < Len(arr) THEN arr[i + 1] ELSE NaN

\* Array.prototype.slice(start, end), negative indices counted from the end.
jsSlice(arr, start, end) ==
    LET n == Len(arr)
        from == IF start < 0 THEN (IF n + start < 0 THEN 0 ELSE n + start) ELSE Min(start, n)
        to == IF end < 0 THEN (IF n + end < 0 THEN 0 ELSE n + end) ELSE Min(end, n)
    IN  IF from >= to THEN <<>> ELSE SubSeq(arr, from + 1, to)

\* values.reduce((a, b) => a + b, 0): the sum of the elements from..to.  The
\* range is halved to keep the evaluation shallow; the additions of the
\* model give the same result in any order.
RECURSIVE sumRange(_, _, _)
sumRange(values, from, to) ==
    IF from > to THEN Num(0)
    ELSE IF from = to THEN values[from]
    ELSE fAdd(sumRange(values, from, (from + to) \div 2),
              sumRange(values, (from + to) \div 2 + 1, to))

sum(values) == sumRange(values, 1, Len(values))

\* Math.min(...values) and Math.max(...values)
RECURSIVE mathMinOf(_)
mathMinOf(values) ==
    IF values = <<>> THEN Infinity(1) ELSE mathMin(Head(values), mathMinOf(Tail(values)))

RECURSIVE mathMaxOf(_)
mathMaxOf(values) ==
    IF values = <<>> THEN Infinity(-1) ELSE mathMax(Head(values), mathMaxOf(Tail(values)))

\* Math.sqrt, to the thousandth.
RECURSIVE sqrtIter(_, _)
sqrtIter(n, x) ==
    LET Better(y) == IF y >= x THEN x ELSE sqrtIter(n, y)
    IN  Better((x + n \div x) \div 2)

mathSqrt(x) ==
    IF isNaN(x) THEN NaN
    ELSE IF x.k = "inf" THEN (IF x.v > 0 THEN x ELSE NaN)
    ELSE IF x.v < 0 THEN NaN
    ELSE IF x.v = 0 THEN Num(0)
    ELSE Num(sqrtIter(x.v * SCALE, x.v * SCALE))

\* The null that calculateMACD, calculateBollingerBands and
\* calculateStochasticOscillator return.  What they return otherwise
\* carries isNull = FALSE; the array of calculateBollingerBands is the field
\* bands.
nullResult == [isNull |-> TRUE]

\* calculateSMA (98-109)
calculateSMA(prices, period) ==
    IF Len(prices) < period THEN <<>>
    ELSE [j \in 1..(Len(prices) - period + 1) |->
            fDiv(sum(jsSlice(prices, j - 1, j - 1 + period)), Num(period * SCALE))]

\* calculateEMA, the iterations i .. j - 1 of the loop of lines 128-131 in
\* order.  The range is halved, and the first half is computed before the
\* second is entered, to keep the evaluation shallow; emaArray is never
\* empty.
RECURSIVE emaLoop(_, _, _, _, _)
emaLoop(prices, period, i, j, emaArray) ==
    IF i >= j THEN emaArray
    ELSE IF j = i + 1
    THEN LET Ema(k) == fAdd(fMul(At(prices, i), k),
                            fMul(At(emaArray, i - period), fSub(Num(SCALE), k)))
         IN  Append(emaArray, Ema(fDiv(Num(2 * SCALE), Num((period + 1) * SCALE))))
    ELSE LET Rest(mid, firstHalf) ==
                 IF Len(firstHalf) = 0 THEN firstHalf
                 ELSE emaLoop(prices, period, mid, j, firstHalf)
         IN  Rest((i + j) \div 2, emaLoop(prices, period, i, (i + j) \div 2, emaArray))

\* (variant: without the length guard of line 118)
calculateEMAUnguarded(prices, period) ==
    emaLoop(prices, period, period, Len(prices),
            <<fDiv(sum(jsSlice(prices, 0, period)), Num(period * SCALE))>>)

\* calculateEMA (117-134)
calculateEMA(prices, period) ==
    IF Len(prices) < period THEN <<>>
    ELSE emaLoop(prices, period, period, Len(prices),
                 <<fDiv(sum(jsSlice(prices, 0, period)), Num(period * SCALE))>>)

\* (variant: the later values computed like the first one, lines 29-30)
rsiValueUnguarded(averageGain, averageLoss) ==
    fSub(Num(100 * SCALE),
         fDiv(Num(100 * SCALE), fAdd(Num(SCALE), fDiv(averageGain, averageLoss))))

\* calculateRSI, lines 42-43: a value of the loop.
rsiValue(averageGain, averageLoss) ==
    IF averageLoss = Num(0) THEN Num(100 * SCALE)
    ELSE fSub(Num(100 * SCALE),
              fDiv(Num(100 * SCALE), fAdd(Num(SCALE), fDiv(averageGain, averageLoss))))

\* calculateRSI, the iterations i .. j - 1 of the loop of lines 34-45 in
\* order, on the loop's variables st.  The range is halved as in emaLoop;
\* rsiArray is never empty.
RECURSIVE rsiLoop(_, _, _, _, _)
rsiLoop(prices, period, i, j, st) ==
    IF i >= j THEN st
    ELSE IF j = i + 1
    THEN LET Wilder(average, x) ==
                 fDiv(fAdd(fMul(average, Num((period - 1) * SCALE)), x), Num(period * SCALE))
             Emit(g, l) ==
                 [averageGain |-> g, averageLoss |-> l,
                  rsiArray |-> Append(st.rsiArray, rsiValue(g, l))]
             Step(change) ==
                 Emit(Wilder(st.averageGain, IF fGt(change, Num(0)) THEN change ELSE Num(0)),
                      Wilder(st.averageLoss,
                             IF fLt(change, Num(0)) THEN mathAbs(change) ELSE Num(0)))
         IN  Step(fSub(At(prices, i), At(prices, i - 1)))
    ELSE LET Rest(mid, firstHalf) ==
                 IF Len(firstHalf.rsiArray) = 0 THEN firstHalf
                 ELSE rsiLoop(prices, period, mid, j, firstHalf)
         IN  Rest((i + j) \div 2, rsiLoop(prices, period, i, (i + j) \div 2, st))

\* calculateRSI (10-48)
calculateRSI(prices, period) ==
    IF Len(prices) < period + 1 THEN <<>>
    ELSE LET n == Len(prices)
             Gain(change) == IF fGt(change, Num(0)) THEN change ELSE Num(0)
             Loss(change) == IF fGt(change, Num(0)) THEN Num(0) ELSE mathAbs(change)
             gains == [i \in 1..period |-> Gain(fSub(At(prices, n - i), At(prices, n - i - 1)))]
             losses == [i \in 1..period |-> Loss(fSub(At(prices, n - i), At(prices, n - i - 1)))]
             Seeded(averageGain, averageLoss) ==
                 rsiLoop(prices, period, period + 1, n,
                         [averageGain |-> averageGain, averageLoss |-> averageLoss,
                          rsiArray |-> <<fSub(Num(100 * SCALE),
                                              fDiv(Num(100 * SCALE),
                                                   fAdd(Num(SCALE),
                                                        fDiv(averageGain, averageLoss))))>>])
         IN  Seeded(fDiv(sum(gains), Num(period * SCALE)),
                    fDiv(sum(losses), Num(period * SCALE))).rsiArray

\* calculateMACD (58-90)
calculateMACD(prices, fastPeriod, slowPeriod, signalPeriod) ==
    IF Len(prices) < (IF fastPeriod > slowPeriod THEN fastPeriod ELSE slowPeriod) + signalPeriod
    THEN nullResult
    ELSE LET Result(macdLine, signalLine) ==
                 [isNull |-> FALSE,
                  MACD |-> macdLine,
                  signal |-> signalLine,
                  histogram |-> [i \in 1..Len(macdLine) |->
                                    fSub(macdLine[i], At(signalLine, i - 1))]]
             Signal(macdLine) == Result(macdLine, calculateEMA(macdLine, signalPeriod))
             Line(fastEMA, slowEMA) ==
                 Signal([i \in 1..Len(fastEMA) |-> fSub(fastEMA[i], At(slowEMA, i - 1))])
         IN  Line(calculateEMA(prices, fastPeriod), calculateEMA(prices, slowPeriod))

\* calculateStandardDeviation (212-217)
calculateStandardDeviation(values) ==
    LET Mean(xs) == fDiv(sum(xs), Num(Len(xs) * SCALE))
        Square(d) == fMul(d, d)
        Deviation(avg) == mathSqrt(Mean([i \in 1..Len(values) |-> Square(fSub(values[i], avg))]))
    IN  Deviation(Mean(values))

\* calculateBollingerBands (143-171)
calculateBollingerBands(prices, period, multiplier) ==
    IF Len(prices) < period THEN nullResult
    ELSE LET Band(ma, std) ==
                 [upper |-> fAdd(ma, fMul(Num(multiplier * SCALE), std)),
                  middle |-> ma,
                  lower |-> fSub(ma, fMul(Num(multiplier * SCALE), std))]
             Bands(sma) ==
                 [isNull |-> FALSE,
                  bands |-> [j \in 1..Len(sma) |->
                               Band(sma[j],
                                    calculateStandardDeviation(
                                        jsSlice(prices, (j - 1) - period + 1, (j - 1) + 1)))]]
         IN  Bands(calculateSMA(prices, period))

\* calculateStochasticOscillator (179-209)
calculateStochasticOscillator(prices, period) ==
    IF Len(prices) < period THEN nullResult
    ELSE LET K(low, high, close) ==
                 fMul(fDiv(fSub(close, low), fSub(high, low)), Num(100 * SCALE))
             OfSlice(periodSlice) ==
                 K(mathMinOf(periodSlice), mathMaxOf(periodSlice), periodSlice[Len(periodSlice)])
             Result(stochK) ==
                 [isNull |-> FALSE,
                  k |-> stochK,
                  d |-> [j \in 1..(IF Len(stochK) >= 3 THEN Len(stochK) - 2 ELSE 0) |->
                            calculateSMA(SubSeq(stochK, j, j + 2), 3)[1]]]
         IN  Result([j \in 1..(Len(prices) - period + 1) |->
                        OfSlice(jsSlice(prices, (period - 1 + (j - 1)) - period + 1,
                                        (period - 1 + (j - 1)) + 1))])

\* --------------------------------------------------------- PredictionEngine
\* (variant: a MACD above its signal weighs more when the RSI is bullish too)
calculateConfidenceMacdFirst(indicators) ==
    (IF fLt(indicators.RSI, Num(30 * SCALE)) THEN 2
     ELSE IF fLt(indicators.RSI, Num(50 * SCALE)) THEN 1
     ELSE IF fGt(indicators.RSI, Num(70 * SCALE)) THEN -2
     ELSE IF fGt(indicators.RSI, Num(50 * SCALE)) THEN -1
     ELSE 0)
    + (IF fGt(indicators.MACD, indicators.Signal)
       THEN (IF fLt(indicators.RSI, Num(50 * SCALE)) THEN 3 ELSE 2)
       ELSE IF /\ fGt(indicators.MACD, fSub(indicators.Signal, Num(10)))
               /\ fLt(indicators.MACD, fAdd(indicators.Signal, Num(10))) THEN 1
       ELSE IF fLt(indicators.MACD, indicators.Signal) THEN -2
       ELSE 0)
    + (IF fLt(indicators.price, indicators.bollingerBands.lower) THEN 1
       ELSE IF fGt(indicators.price, indicators.bollingerBands.upper) THEN -1
       ELSE 0)
    + (IF fLt(indicators.stochastic.percentK, Num(20 * SCALE)) THEN 1
       ELSE IF fGt(indicators.stochastic.percentK, Num(80 * SCALE)) THEN -1
       ELSE 0)
    + (IF fGt(indicators.price, indicators.SMA20) /\ fGt(indicators.price, indicators.EMA20) THEN 1
       ELSE IF fLt(indicators.price, indicators.SMA20) /\ fLt(indicators.price, indicators.EMA20)
            THEN -1
       ELSE 0)

\* calculateConfidence (prediction.js 24-75)
calculateConfidence(indicators) ==
    (IF fLt(indicators.RSI, Num(30 * SCALE)) THEN 2
     ELSE IF fLt(indicators.RSI, Num(50 * SCALE)) THEN 1
     ELSE IF fGt(indicators.RSI, Num(70 * SCALE)) THEN -2
     ELSE IF fGt(indicators.RSI, Num(50 * SCALE)) THEN -1
     ELSE 0)
    + (IF fGt(indicators.MACD, indicators.Signal) THEN 2
       ELSE IF /\ fGt(indicators.MACD, fSub(indicators.Signal, Num(10)))
               /\ fLt(indicators.MACD, fAdd(indicators.Signal, Num(10))) THEN 1
       ELSE IF fLt(indicators.MACD, indicators.Signal) THEN -2
       ELSE 0)
    + (IF fLt(indicators.price, indicators.bollingerBands.lower) THEN 1
       ELSE IF fGt(indicators.price, indicators.bollingerBands.upper) THEN -1
       ELSE 0)
    + (IF fLt(indicators.stochastic.percentK, Num(20 * SCALE)) THEN 1
       ELSE IF fGt(indicators.stochastic.percentK, Num(80 * SCALE)) THEN -1
       ELSE 0)
    + (IF fGt(indicators.price, indicators.SMA20) /\ fGt(indicators.price, indicators.EMA20) THEN 1
       ELSE IF fLt(indicators.price, indicators.SMA20) /\ fLt(indicators.price, indicators.EMA20)
            THEN -1
       ELSE 0)

\* prepareFeatures (randomForests.js 52-76), by the number of feature rows
\* it returns; the rows themselves only feed the predictor.
prepareFeatures(priceBuffer) ==
    IF Len(priceBuffer) < FEATURE_WINDOW THEN 0
    ELSE IF Len(priceBuffer) = FEATURE_WINDOW + 1 THEN 1
    ELSE Len(priceBuffer) - FEATURE_WINDOW

\* (variant: one label per price after the first)
prepareLabelsFromFirst(priceBuffer) ==
    [k \in 1..(IF Len(priceBuffer) > 1 THEN Len(priceBuffer) - 1 ELSE 0) |->
        IF fGt(priceBuffer[k + 1], priceBuffer[k]) THEN 1 ELSE 0]

\* prepareLabels (randomForests.js 77-83): the loop starts at index 50, the
\* length of a feature window, so label k belongs to feature row k.
prepareLabels(priceBuffer) ==
    [k \in 1..(IF Len(priceBuffer) > FEATURE_WINDOW THEN Len(priceBuffer) - FEATURE_WINDOW
               ELSE 0) |->
        IF fGt(priceBuffer[FEATURE_WINDOW + k], priceBuffer[FEATURE_WINDOW + k - 1])
        THEN 1 ELSE 0]

\* What the predictor and the runtime contribute to one call: the step at
\* which an exception is raised ("none" when none is), and the value
\* randomForest.predict returns (the mean of sigmoid outputs, or NaN when
\* training diverged).
EngineSteps == {"features", "train", "predict", "indicators", "confidence", "sizing"}

RfValues == {Num(0), Num(250), Num(500), Num(750), Num(1000), NaN}

EngineEnvs == [throwsAt : EngineSteps \cup {"none"}, rf : RfValues]

\* The last element of an array, or a default for an empty one (156-165).
LastOr(arr, default) == IF Len(arr) > 0 THEN arr[Len(arr)] ELSE default

\* (variant: the stake sized from the signed score)
DecisionSignedStake(confidenceScore) ==
    [thrown |-> FALSE,
     prediction |-> IF fGt(confidenceScore, Num(bullConfidence)) THEN "bull"
                    ELSE IF fLt(confidenceScore, Num(bearConfidence)) THEN "bear"
                    ELSE null,
     betSize |-> mapScoreToBetSize(confidenceScore)]

\* getPrediction, lines 171-181: the decision for a confidence score.
Decision(confidenceScore) ==
    [thrown |-> FALSE,
     prediction |-> IF fGt(confidenceScore, Num(bullConfidence)) THEN "bull"
                    ELSE IF fLt(confidenceScore, Num(bearConfidence)) THEN "bear"
                    ELSE null,
     betSize |-> mapScoreToBetSize(mathAbs(confidenceScore))]

\* The try block of getPrediction (123-182) for the numbers of rows
\* features and latestFeatures that the two calls of prepareFeatures hand
\* back (lines 124 and 135).  thrown tells that an exception left the block.
EngineTryOn(features, latestFeatures, priceBuffer, env) ==
    LET Thrown == [thrown |-> TRUE, prediction |-> null, betSize |-> NaN]
        Bear == [thrown |-> FALSE, prediction |-> "bear", betSize |-> Num(betMin)]
        Combined(technicalScore) ==
            fAdd(fMul(fSub(env.rf, Num(500)), Num(5 * SCALE)),
                 fMul(Num(technicalScore * SCALE), Num(500)))
        Scored(macd, bb, stoch, price) ==
            IF env.throwsAt = "indicators" \/ macd.isNull \/ bb.isNull \/ stoch.isNull
            THEN Thrown
            ELSE IF env.throwsAt \in {"confidence", "sizing"} THEN Thrown
            ELSE Decision(
                    fDiv(Combined(
                            calculateConfidence(
                                [RSI |-> LastOr(calculateRSI(priceBuffer, 14), Num(50 * SCALE)),
                                 MACD |-> LastOr(macd.MACD, Num(0)),
                                 Signal |-> LastOr(macd.signal, Num(0)),
                                 SMA20 |-> LastOr(calculateSMA(priceBuffer, 20), price),
                                 EMA20 |-> LastOr(calculateEMA(priceBuffer, 20), price),
                                 bollingerBands |->
                                     LastOr(bb.bands,
                                            [upper |-> Num(0), middle |-> Num(0),
                                             lower |-> Num(0)]),
                                 stochastic |->
                                     [percentK |-> LastOr(stoch.k, Num(50 * SCALE)),
                                      percentD |-> LastOr(stoch.d, Num(50 * SCALE))],
                                 price |-> price])),
                         Num(2 * SCALE)))
    IN  IF env.throwsAt = "features" THEN Thrown
        ELSE IF features = 0 THEN Bear
        ELSE IF env.throwsAt = "train" THEN Thrown
        ELSE IF latestFeatures = 0 THEN Bear
        ELSE IF env.throwsAt = "predict" THEN Thrown
        ELSE Scored(calculateMACD(priceBuffer, 12, 26, 9),
                    calculateBollingerBands(priceBuffer, 20, 2),
                    calculateStochasticOscillator(priceBuffer, 14),
                    priceBuffer[Len(priceBuffer)])

\* priceBuffer.slice(-51), the argument of the second call (line 135).
latestWindow(priceBuffer) == jsSlice(priceBuffer, -(FEATURE_WINDOW + 1), Len(priceBuffer))

\* The try block with prepareFeatures of randomForests.js behind both calls.
EngineTry(priceBuffer, env) ==
    EngineTryOn(prepareFeatures(priceBuffer), prepareFeatures(latestWindow(priceBuffer)),
                priceBuffer, env)

\* (variant: an exception of the try block leaves getPrediction)
getPredictionUncaught(priceBuffer, env) ==
    IF Len(priceBuffer) < MIN_PRICES
    THEN [thrown |-> FALSE, prediction |-> null, betSize |-> Num(betMin)]
    ELSE EngineTry(priceBuffer, env)

\* (variant: a short buffer gets the default of lines 125-128)
getPredictionShortIsBear(priceBuffer, env) ==
    IF Len(priceBuffer) < MIN_PRICES
    THEN [thrown |-> FALSE, prediction |-> "bear", betSize |-> Num(betMin)]
    ELSE LET r == EngineTry(priceBuffer, env)
         IN  IF r.thrown
             THEN [thrown |-> FALSE, prediction |-> null, betSize |-> Num(betMin)]
             ELSE r

\* getPrediction (prediction.js 116-186) in full.  BET_SIZES.minBet is
\* returned as configured (lines 120 and 184).
getPredictionFull(priceBuffer, env) ==
    IF Len(priceBuffer) < MIN_PRICES
    THEN [thrown |-> FALSE, prediction |-> null, betSize |-> Num(betMin)]
    ELSE LET r == EngineTry(priceBuffer, env)
         IN  IF r.thrown
             THEN [thrown |-> FALSE, prediction |-> null, betSize |-> Num(betMin)]
             ELSE r

\* getPrediction (116-186) for given returns of the two prepareFeatures calls.
getPredictionOn(features, latestFeatures, priceBuffer, env) ==
    IF Len(priceBuffer) < MIN_PRICES
    THEN [thrown |-> FALSE, prediction |-> null, betSize |-> Num(betMin)]
    ELSE LET r == EngineTryOn(features, latestFeatures, priceBuffer, env)
         IN  IF r.thrown
             THEN [thrown |-> FALSE, prediction |-> null, betSize |-> Num(betMin)]
             ELSE r

\* ----------------------------------- functions run on their own: set-up
\* The specifications below run one function of the program on inputs drawn
\* from bounded sets; the coordinator, the workers and the stores stay as
\* they are before a run.
RunIdle ==
    /\ rounds = <<>>
    /\ numCPUs = 1
    /\ progress = [id \in WorkerIds |-> NoRow]
    /\ ledger = EmptyBag
    /\ coord = [pc |-> "start", incompleteWork |-> {}, launched |-> {}, summary |-> NoSummary,
                processed |-> {}]
    /\ wk = [id \in WorkerIds |-> IdleWorker]
    /\ faults = 0
    /\ runs = 1
    /\ pt = PtIdle

\* ------------------------------------------ CircularBuffer, on its own
\* A buffer of every capacity of the bounds under pushes and clears;
\* fx.pushed is the history kept beside it: the items pushed since the
\* buffer was created or last cleared.
WindowItems == {100, 110}

WindowInit ==
    /\ RunIdle
    /\ \E size \in 1..MaxCapacity :
         fx = [op |-> "window", buf |-> CircularBuffer(size), pushed |-> <<>>, ops |-> 0]

WindowPush ==
    /\ fx.op = "window"
    /\ fx.ops < MaxPushes
    /\ \E item \in WindowItems :
         fx' = [fx EXCEPT !.buf = push(@, item), !.pushed = Append(@, item), !.ops = @ + 1]
    /\ UNCHANGED runVars

WindowClear ==
    /\ fx.op = "window"
    /\ fx.ops < MaxPushes
    /\ fx.pushed # <<>>
    /\ fx' = [fx EXCEPT !.buf = clear(@), !.pushed = <<>>, !.ops = @ + 1]
    /\ UNCHANGED runVars

WindowNext == WindowPush \/ WindowClear

SpecWindow == WindowInit /\ [][WindowNext]_vars

\* ------------------------------------------- scoring a bet, on its own
\* Lines 138-153 run on one row and one decision.  endingPrice 0 stands for
\* a row without endingPrice (line 139 then falls back to row.price).
ScorePrices == {100, 110}

ScoreStakes == betMin..(betMax + 1)

ScoreInit ==
    /\ RunIdle
    /\ \E price \in ScorePrices, endingPrice \in ScorePrices \cup {0},
          prediction \in {"bull", "bear"}, betSize \in ScoreStakes :
         fx = [op |-> "score",
               row |-> [roundId |-> 101, price |-> price, endingPrice |-> endingPrice],
               dec |-> [prediction |-> prediction, betSize |-> betSize]]

ScoreRound ==
    /\ fx.op = "score"
    /\ fx' = [op |-> "scored", row |-> fx.row, dec |-> fx.dec, bet |-> MakeBet(fx.row, fx.dec)]
    /\ UNCHANGED runVars

ScoreNext == ScoreRound

SpecScore == ScoreInit /\ [][ScoreNext]_vars

\* ------------------------------------------------- BetSizer, on its own
\* mapScoreToBetSize run on two scores: a grid of quarter steps that reaches
\* past [minConfidence, maxConfidence], two scores far outside it, and NaN.
SizerScores ==
    {Num(250 * n) : n \in (-MaxScoreSteps)..MaxScoreSteps}
        \cup {Num(-1000000), Num(1000000), NaN}

SizerInit ==
    /\ RunIdle
    /\ \E a \in SizerScores, b \in SizerScores : fx = [op |-> "sizer", a |-> a, b |-> b]

SizeBets ==
    /\ fx.op = "sizer"
    /\ fx' = [op |-> "sized", a |-> fx.a, b |-> fx.b,
               clampedA |-> clampedScore(fx.a), clampedB |-> clampedScore(fx.b),
               betA |-> mapScoreToBetSize(fx.a), betB |-> mapScoreToBetSize(fx.b)]
    /\ UNCHANGED runVars

SizerNext == SizeBets

SpecSizer == SizerInit /\ [][SizerNext]_vars

\* ----------------------------------------------- indicators, on their own
\* Every indicator run on every price sequence of up to MaxSeqLen prices
\* over two values, with periods up to MaxPeriod; MACD runs with
\* fast = period, slow = period + 1.
IndicatorNames == {"RSI", "EMA", "SMA", "MACD", "Bollinger", "Stochastic"}

RECURSIVE PriceSeqs(_)
PriceSeqs(n) ==
    IF n = 0 THEN {<<>>}
    ELSE {Append(q, Num(p * SCALE)) : q \in PriceSeqs(n - 1), p \in {10, 11}}

IndicatorInit ==
    /\ RunIdle
    /\ \E n \in 0..MaxSeqLen, period \in 1..MaxPeriod, signalPeriod \in 1..MaxPeriod :
         \E prices \in PriceSeqs(n) :
            fx = [op |-> "indicator", prices |-> prices, period |-> period,
                  signalPeriod |-> signalPeriod]

Calculate ==
    /\ fx.op = "indicator"
    /\ \E fn \in IndicatorNames :
         fx' = [op |-> "calculated", prices |-> fx.prices, period |-> fx.period,
                signalPeriod |-> fx.signalPeriod, fn |-> fn,
                result |->
                    CASE fn = "RSI" -> calculateRSI(fx.prices, fx.period)
                      [] fn = "EMA" -> calculateEMA(fx.prices, fx.period)
                      [] fn = "SMA" -> calculateSMA(fx.prices, fx.period)
                      [] fn = "MACD" -> calculateMACD(fx.prices, fx.period, fx.period + 1,
                                                      fx.signalPeriod)
                      [] fn = "Bollinger" -> calculateBollingerBands(fx.prices, fx.period, 2)
                      [] OTHER -> calculateStochasticOscillator(fx.prices, fx.period)]
    /\ UNCHANGED runVars

IndicatorNext == Calculate

SpecIndicators == IndicatorInit /\ [][IndicatorNext]_vars

\* ------------------------------------------ PredictionEngine, on its own
\* getPrediction called on price buffers of every length up to MIN_PRICES +
\* MaxExtraPrices and of five shapes, then the worker's use of the decision
\* (backtestSimulator.js 137-157).
EngineShapes == {"flat", "flatHigh", "rise", "fall", "zigzag"}

EnginePrice(shape, i) ==
    CASE shape = "flat" -> 10
      [] shape = "flatHigh" -> 17
      [] shape = "rise" -> 5 + (i \div 10)
      [] shape = "fall" -> 16 - (i \div 10)
      [] OTHER -> 10 + (i % 2)

EngineInit ==
    /\ RunIdle
    /\ \E n \in 0..(MIN_PRICES + MaxExtraPrices), shape \in EngineShapes :
         fx = [op |-> "engine", shape |-> shape,
               prices |-> [i \in 1..n |-> Num(EnginePrice(shape, i) * SCALE)]]

EnginePredict ==
    /\ fx.op = "engine"
    /\ \E env \in EngineEnvs :
         fx' = [op |-> "decided", shape |-> fx.shape, prices |-> fx.prices, env |-> env,
                dec |-> getPredictionFull(fx.prices, env)]
    /\ UNCHANGED runVars

EngineRecord ==
    /\ fx.op = "decided"
    /\ LET row == [roundId |-> 101, price |-> 10, endingPrice |-> 11]
           dec == fx.dec
       IN  fx' = [op |-> IF dec.thrown THEN "failed" ELSE "nextRow",
                  shape |-> fx.shape, prices |-> fx.prices, env |-> fx.env, dec |-> dec,
                  bets |-> IF ~dec.thrown /\ dec.prediction # null /\ fGt(dec.betSize, Num(0))
                           THEN <<MakeBet(row, [prediction |-> dec.prediction,
                                                betSize |-> dec.betSize.v])>>
                           ELSE NoBet]
    /\ UNCHANGED runVars

EngineNext == EnginePredict \/ EngineRecord

SpecEngine == EngineInit /\ [][EngineNext]_vars

\* --------------------- PredictionEngine and its feature collaborator
\* getPrediction on full windows, with each call of prepareFeatures handing
\* back either the rows randomForests.js computes or, as the collaborator's
\* contract allows for insufficient data, no rows; then the worker's use of
\* the decision.  env carries what the two calls returned.
CollaboratorInit ==
    /\ RunIdle
    /\ \E n \in MIN_PRICES..(MIN_PRICES + MaxExtraPrices), shape \in EngineShapes :
         fx = [op |-> "engine", shape |-> shape,
               prices |-> [i \in 1..n |-> Num(EnginePrice(shape, i) * SCALE)]]

CollaboratorPredict ==
    /\ fx.op = "engine"
    /\ \E env \in EngineEnvs :
       \E features \in {0, prepareFeatures(fx.prices)},
          latestFeatures \in {0, prepareFeatures(latestWindow(fx.prices))} :
         fx' = [op |-> "decided", shape |-> fx.shape, prices |-> fx.prices,
                env |-> [throwsAt |-> env.throwsAt, rf |-> env.rf, features |-> features,
                         latestFeatures |-> latestFeatures],
                dec |-> getPredictionOn(features, latestFeatures, fx.prices, env)]
    /\ UNCHANGED runVars

CollaboratorNext == CollaboratorPredict \/ EngineRecord

SpecCollaborator == CollaboratorInit /\ [][CollaboratorNext]_vars

\* ------------------------------------- the decision rule, on its own
\* Lines 171-181 run on every confidence score of a grid of thousandths
\* around the two thresholds, on scores far outside it, and on NaN and the
\* infinities.
DecisionScores ==
    {Num(v) : v \in (-MaxGridScore)..MaxGridScore}
        \cup {Num(2 * minConfidence), Num(minConfidence), Num(maxConfidence), Num(2 * maxConfidence),
               NaN, Infinity(1), Infinity(-1)}

DecisionInit ==
    /\ RunIdle
    /\ \E confidenceScore \in DecisionScores :
         fx = [op |-> "confidence", confidenceScore |-> confidenceScore]

Decide ==
    /\ fx.op = "confidence"
    /\ fx' = [op |-> "directed", confidenceScore |-> fx.confidenceScore,
               dec |-> Decision(fx.confidenceScore)]
    /\ UNCHANGED runVars

DecisionNext == Decide

SpecDecision == DecisionInit /\ [][DecisionNext]_vars

\* ------------------------------------- calculateConfidence, on its own
\* calculateConfidence run on indicator values on either side of every
\* threshold it tests, and on NaN for each of them.
ConfidenceInputs ==
    [RSI : {Num(20 * SCALE), Num(40 * SCALE), Num(50 * SCALE), Num(60 * SCALE),
            Num(80 * SCALE), NaN},
     MACD : {Num(0), Num(5), Num(SCALE), NaN},
     Signal : {Num(0), Num(SCALE), NaN},
     price : {Num(10 * SCALE), NaN},
     bollingerBands : {[upper |-> Num(11 * SCALE), middle |-> Num(10 * SCALE),
                        lower |-> Num(9 * SCALE)],
                       [upper |-> Num(13 * SCALE), middle |-> Num(12 * SCALE),
                        lower |-> Num(11 * SCALE)],
                       [upper |-> Num(9 * SCALE), middle |-> Num(8 * SCALE),
                        lower |-> Num(7 * SCALE)],
                       [upper |-> NaN, middle |-> Num(10 * SCALE), lower |-> NaN]},
     stochastic : [percentK : {Num(10 * SCALE), Num(50 * SCALE), Num(90 * SCALE), NaN},
                   percentD : {Num(50 * SCALE)}],
     SMA20 : {Num(9 * SCALE), Num(11 * SCALE), NaN},
     EMA20 : {Num(9 * SCALE), Num(11 * SCALE), NaN}]

ConfidenceInit ==
    /\ RunIdle
    /\ \E indicators \in ConfidenceInputs : fx = [op |-> "indicators", indicators |-> indicators]

ScoreIndicators ==
    /\ fx.op = "indicators"
    /\ fx' = [op |-> "technicalScore", indicators |-> fx.indicators,
               score |-> calculateConfidence(fx.indicators)]
    /\ UNCHANGED runVars

ConfidenceNext == ScoreIndicators

SpecConfidence == ConfidenceInit /\ [][ConfidenceNext]_vars

\* ------------------------------------------ the label series, on its own
\* prepareLabels, as getPrediction calls it (line 130), on the price buffers
\* of the engine's runs.
Label ==
    /\ fx.op = "engine"
    /\ fx' = [op |-> "labelled", shape |-> fx.shape, prices |-> fx.prices,
               labels |-> prepareLabels(fx.prices)]
    /\ UNCHANGED runVars

LabelsNext == Label

SpecLabels == EngineInit /\ [][LabelsNext]_vars

\* -------------------------------------------------------------- properties
Done(id) == \E k \in 1..Len(wk[id].msgs) : wk[id].msgs[k] = "done"

Launched(id) == wk[id].pc # "idle"

\* C1: at-least-once recording.  At every point of a worker's run, every
\* record the worker generated for a round at an offset below its persisted
\* lastProcessedOffset is already in the ledger.
C1_RecordedBelowCheckpoint ==
    \A id \in WorkerIds :
        (Launched(id) /\ progress[id].present) =>
            \A g \in wk[id].generated :
                g.offset < progress[id].lastProcessedOffset => BagIn(g.bet, ledger)

\* C2: for every totalRounds >= 1 and worker count >= 1 the partitions of the
\* even split are contiguous: the first starts at 0, each next one starts
\* where the previous one ends, the last ends at totalRounds, and every
\* partition has startOffset <= endOffset.
C2_PartitionsContiguous ==
    (pt.cpus >= 1 /\ pt.i = pt.cpus) =>
        /\ pt.workers[1].startOffset = 0
        /\ pt.workers[pt.cpus].endOffset = pt.totalRounds
        /\ \A k \in 1..pt.cpus : pt.workers[k].startOffset <= pt.workers[k].endOffset
        /\ \A k \in 1..(pt.cpus - 1) : pt.workers[k + 1].startOffset = pt.workers[k].endOffset

\* The bets one worker records when it replays the whole table from offset 0
\* with one price window that is never cleared.
RECURSIVE Replay(_, _, _)
Replay(table, k, ph) ==
    IF k > Len(table) THEN {}
    ELSE LET step == RowStep(ph, table[k])
         IN  {step.bets[j] : j \in 1..Len(step.bets)} \cup Replay(table, k + 1, step.priceHistory)

BetKey(b) ==
    [roundId |-> b.roundId, prediction |-> b.prediction, betSize |-> b.betSize,
     outcome |-> b.outcome]

\* C3: after full completion of a partitioned run in which nothing crashed or
\* failed, the bets of the ledger, duplicates ignored and compared by roundId,
\* direction, stake and outcome, are exactly the bets of a single worker
\* replaying all rounds from offset 0 with one price window.
C3_MatchesSingleWorker ==
    (coord.pc = "summary" /\ faults = 0 /\ \A id \in WorkerIds : ~progress[id].present) =>
        {BetKey(b) : b \in BagToSet(ledger)}
            = {BetKey(b) : b \in Replay(rounds, 1, CircularBuffer(WINDOW_SIZE))}

\* The offset a worker has to start from: the lastProcessedOffset of the
\* checkpoint it found for its id, or its assigned start when it found none.
StartFrom(id) ==
    IF wk[id].lastProgress.present
    THEN wk[id].lastProgress.lastProcessedOffset
    ELSE wk[id].startOffset

\* C4: a worker starts at the lastProcessedOffset of the checkpoint it found
\* (at its assigned start otherwise): its first fetch is at that offset, and
\* it never fetches a round, or stands, below it.
C4_ResumeFromCheckpoint ==
    \A id \in WorkerIds :
        (Launched(id) /\ wk[id].pc # "resume") =>
            /\ wk[id].offset >= StartFrom(id)
            /\ \A o \in wk[id].fetched : o >= StartFrom(id)
            /\ wk[id].fetched # {} => StartFrom(id) \in wk[id].fetched

C4_Witness ==
    \E id \in WorkerIds :
        /\ wk[id].lastProgress.present
        /\ wk[id].lastProgress.lastProcessedOffset > 0
        /\ wk[id].lastProgress.processedCount # wk[id].lastProgress.lastProcessedOffset
        /\ wk[id].fetched # {}
        /\ wk[id].pc = "exited"

\* C5: in a run in which no worker crashes or fails, the ledger ends with at
\* most one record per roundId, and every record is a bull or bear bet with a
\* positive stake.
C5_OneBetPerRound ==
    (coord.pc = "summary" /\ faults = 0 /\ runs = 1) =>
        /\ \A b \in BagToSet(ledger) :
            /\ CopiesIn(b, ledger) = 1
            /\ b.prediction \in {"bull", "bear"}
            /\ b.betSize > 0
        /\ \A a, b \in BagToSet(ledger) : a.roundId = b.roundId => a = b

\* C6: recordBets is all-or-nothing per call: when the call reports failure
\* none of the records of the batch are committed, and when it succeeds all
\* of them are.
C6_AppendBatchAtomic ==
    \A id \in WorkerIds :
        wk[id].lastFlush.called =>
            IF wk[id].lastFlush.rejected
            THEN wk[id].lastFlush.committed = <<>>
            ELSE wk[id].lastFlush.committed = wk[id].lastFlush.batch

\* C7: a worker that hit a storage error (fetch, flush or checkpoint write)
\* exits with a code other than 0.
C7_FailedExitsNonZero ==
    \A id \in WorkerIds :
        (wk[id].failed /\ wk[id].pc = "exited") => wk[id].exitCode # 0

\* C8 as claimed: a worker that reached Done has no checkpoint, and a worker
\* that failed or crashed after starting its partition still has one.
C8_CheckpointUntilDone ==
    \A id \in WorkerIds :
        /\ Done(id) => ~progress[id].present
        /\ ((wk[id].failed \/ wk[id].crashed) /\ wk[id].started) => progress[id].present

\* C8 as amended: a worker that reached Done has no checkpoint; a worker that
\* failed after starting its partition still has one; a worker that crashed
\* after starting its partition still has one unless it crashed after its own
\* DELETE, which it only runs after the final flush succeeded.
C8_CheckpointUntilDeleted ==
    \A id \in WorkerIds :
        /\ Done(id) => ~progress[id].present
        /\ (wk[id].failed /\ wk[id].started) => progress[id].present
        /\ (wk[id].crashed /\ wk[id].started /\ ~wk[id].deleted) => progress[id].present
        /\ wk[id].deleted =>
            /\ ~wk[id].failed
            /\ \A g \in wk[id].generated : BagIn(g.bet, ledger)

C8_Witness ==
    \E a, b \in WorkerIds :
        /\ Done(a) /\ wk[a].pc = "exited" /\ wk[a].generated # {}
        /\ wk[b].failed /\ wk[b].started /\ wk[b].pc = "exited"

\* C9: when checkpoints exist at coordinator start, exactly one worker per
\* entry is launched, under the entry's worker id, from its
\* lastProcessedOffset to its endOffset, and no worker of the even split.
C9_ResumeExactlyEntries ==
    (coord.pc # "start" /\ coord.incompleteWork # {}) =>
        /\ \A id \in WorkerIds :
            Launched(id) <=> (\E e \in coord.incompleteWork : e.workerId = id)
        /\ \A e \in coord.incompleteWork :
            /\ wk[e.workerId].startOffset = e.lastProcessedOffset
            /\ wk[e.workerId].endOffset = e.endOffset
        /\ Cardinality(coord.launched) = Cardinality(coord.incompleteWork)

C9_Witness ==
    /\ runs = 2
    /\ coord.pc = "summary"
    /\ Cardinality(coord.incompleteWork) = 1
    /\ numCPUs = 2
    /\ \E e \in coord.incompleteWork :
        e.lastProcessedOffset # Partition(e.workerId - 1, Len(rounds), numCPUs).startOffset

\* C10: the final summary query is issued only after every launched worker
\* has exited, so it reads the ledger no worker appends to any more.
C10_SummaryAfterAllExit ==
    coord.pc = "summary" =>
        /\ \A d \in coord.launched : wk[d.workerId].pc = "exited"
        /\ coord.summary = getSummary(ledger)

C10_Witness ==
    /\ coord.pc = "summary"
    /\ \E a, b \in WorkerIds : Done(a) /\ wk[b].failed /\ wk[b].exitCode = 0
    /\ coord.summary.totalBets > 0

\* The steps of worker id that the code takes when nothing fails.
RunStep(id) ==
    \/ Resume(id)
    \/ InsertCheckpoint(id)
    \/ MemoryRetry(id)
    \/ Fetch(id)
    \/ ProcessRow(id)
    \/ Flush(id)
    \/ Checkpoint(id)
    \/ Drain(id)
    \/ DeleteCheckpoint(id)
    \/ PostDone(id)
    \/ WorkerExit(id)

\* The offsets of the table that lie in the partition of worker id.
OwnOffsets(id) ==
    {o \in 0..(Len(rounds) - 1) : wk[id].startOffset <= o /\ o < wk[id].endOffset}

C20_StaysInPartition ==
    \A id \in WorkerIds :
        Launched(id) =>
            /\ \A o \in wk[id].fetched : o < wk[id].endOffset
            /\ \A g \in wk[id].generated : g.offset < wk[id].endOffset
            /\ progress[id].present => progress[id].lastProcessedOffset <= progress[id].endOffset

\* The last n items of a sequence.
LastN(s, n) == SubSeq(s, Len(s) - n + 1, Len(s))

\* C12: after any pushes and clears, toArray has length min(number of pushes
\* since creation or the last clear, capacity) and holds exactly the most
\* recent pushes, oldest first.
C12_WindowHoldsLatest ==
    fx.op = "window" =>
        /\ Len(toArray(fx.buf)) = Min(Len(fx.pushed), fx.buf.size)
        /\ toArray(fx.buf) = LastN(fx.pushed, Min(Len(fx.pushed), fx.buf.size))

C12_Witness ==
    /\ fx.op = "window"
    /\ Len(fx.pushed) > fx.buf.size
    /\ fx.buf.size > 1
    /\ \E i, j \in 1..Len(toArray(fx.buf)) : toArray(fx.buf)[i] # toArray(fx.buf)[j]

\* C15: a bet is a win iff its direction equals the realized move (bull when
\* endingPrice > startingPrice, bear when endingPrice < startingPrice); the
\* profit is 0.95 * stake on a win and -stake on a loss (in hundredths of
\* the stake unit: 95 * stake and -100 * stake).
C15_WinIffRealizedMove ==
    fx.op = "scored" =>
        LET moved == (fx.dec.prediction = "bull" /\ fx.row.endingPrice > fx.row.price)
                     \/ (fx.dec.prediction = "bear" /\ fx.row.endingPrice # 0
                         /\ fx.row.endingPrice < fx.row.price)
        IN  /\ (fx.bet.outcome = "win") <=> moved
            /\ fx.bet.outcome \in {"win", "lose"}
            /\ fx.bet.profitBNB = IF fx.bet.outcome = "win"
                                  THEN 95 * fx.dec.betSize ELSE -(100 * fx.dec.betSize)

\* x lies in [lo, hi], all three finite.
InRange(x, lo, hi) == x.k = "num" /\ lo <= x.v /\ x.v <= hi

\* C16: for every finite score, however far outside [minConfidence,
\* maxConfidence], the bet size is a finite number in [betMin, betMax]; for
\* a NaN score it is betMin; it is never NaN or infinite.
C16_BetSizeInRange ==
    fx.op = "sized" =>
        /\ InRange(fx.betA, betMin, betMax)
        /\ InRange(fx.betB, betMin, betMax)
        /\ isNaN(fx.a) => fx.betA = Num(betMin)
        /\ isNaN(fx.b) => fx.betB = Num(betMin)

C16_Witness ==
    /\ fx.op = "sized"
    /\ fx.a = Num(1000000)
    /\ isNaN(fx.b)
    /\ fx.betA = Num(9)
    /\ fx.betB = Num(betMin)

\* C17: for scores a <= b within [minConfidence, maxConfidence] the bet size
\* of a is at most that of b, and what reaches the sigmoid is the score
\* clamped to [minConfidence, maxConfidence].
C17_MonotoneAndClamped ==
    fx.op = "sized" =>
        /\ (/\ InRange(fx.a, minConfidence, maxConfidence)
            /\ InRange(fx.b, minConfidence, maxConfidence)
            /\ fx.a.v <= fx.b.v) => fx.betA.v <= fx.betB.v
        /\ ~isNaN(fx.a) => InRange(fx.clampedA, minConfidence, maxConfidence)
        /\ ~isNaN(fx.b) => InRange(fx.clampedB, minConfidence, maxConfidence)
        /\ InRange(fx.a, minConfidence, maxConfidence) => fx.clampedA = fx.a

C17_Witness ==
    /\ fx.op = "sized"
    /\ fx.a = Num(0)
    /\ fx.b = Num(4000)
    /\ fx.clampedB = Num(maxConfidence)
    /\ fx.betA.v < fx.betB.v

\* C13 as stated: for every price sequence shorter than 100, getPrediction
\* returns direction none and stake 0.
C13_ShortIsNoneAndZero ==
    (fx.op = "decided" /\ Len(fx.prices) < MIN_PRICES) =>
        (fx.dec.prediction = null /\ fx.dec.betSize = Num(0))

\* C13, amended: for every price sequence shorter than 100, getPrediction
\* returns direction none and the configured minimum stake, whatever the
\* predictor would have done.
C13_ShortIsNoneAndMinStake ==
    (fx.op = "decided" /\ Len(fx.prices) < MIN_PRICES) =>
        (fx.dec.prediction = null /\ fx.dec.betSize = Num(betMin) /\ ~fx.dec.thrown)

C13_Witness ==
    /\ fx.op = "decided"
    /\ Len(fx.prices) = MIN_PRICES - 1
    /\ fx.shape = "rise"
    /\ fx.env.throwsAt = "none"
    /\ fx.dec = [thrown |-> FALSE, prediction |-> null, betSize |-> Num(betMin)]

\* C14: an exception raised at any step of the engine (features, training,
\* prediction, indicators, score, sizing) is caught inside getPrediction,
\* which returns direction none with the minimum stake; the worker records
\* no bet for the round and goes on with the next row.
C14_EngineFailSafe ==
    ((fx.op \in {"decided", "nextRow", "failed"}) /\ Len(fx.prices) >= MIN_PRICES
        /\ fx.env.throwsAt # "none") =>
            /\ fx.dec = [thrown |-> FALSE, prediction |-> null, betSize |-> Num(betMin)]
            /\ fx.op # "failed"
            /\ fx.op = "nextRow" => fx.bets = NoBet

C14_Witness ==
    /\ fx.op = "nextRow"
    /\ Len(fx.prices) = MIN_PRICES
    /\ fx.shape = "rise"
    /\ fx.env.throwsAt = "predict"
    /\ fx.bets = NoBet

\* The minimum input length of each indicator.
MinLength(fn, period, signalPeriod) ==
    CASE fn = "RSI" -> period + 1
      [] fn = "MACD" -> (period + 1) + signalPeriod
      [] OTHER -> period

\* C18: each indicator returns its empty result ([] for RSI, EMA and SMA,
\* null for MACD, Bollinger and Stochastic) exactly when the input is
\* shorter than its minimum length, and a non-empty result otherwise.
C18_SentinelIffTooShort ==
    fx.op = "calculated" =>
        LET short == Len(fx.prices) < MinLength(fx.fn, fx.period, fx.signalPeriod)
            sentinel == IF fx.fn \in {"RSI", "EMA", "SMA"}
                        THEN fx.result = <<>>
                        ELSE fx.result.isNull
        IN  /\ short <=> sentinel
            /\ ~short =>
                 CASE fx.fn = "MACD" -> Len(fx.result.MACD) > 0 /\ Len(fx.result.signal) > 0
                   [] fx.fn = "Stochastic" -> Len(fx.result.k) > 0
                   [] fx.fn = "Bollinger" -> Len(fx.result.bands) > 0
                   [] OTHER -> Len(fx.result) > 0

C18_Witness ==
    /\ fx.op = "calculated"
    /\ fx.fn = "MACD"
    /\ fx.period = 2
    /\ fx.signalPeriod = 2
    /\ Len(fx.prices) = 5
    /\ Len(fx.result.MACD) = 4

\* C19: on 100 identical prices the indicators and the engine complete
\* without throwing: the last Bollinger band has width 0, the latest RSI is
\* 100, the latest Stochastic %K is NaN (0 / 0), and the decision has
\* direction none or a finite stake within [betMin, betMax].
C19_FlatWindow ==
    ((fx.op \in {"decided", "nextRow", "failed"}) /\ Len(fx.prices) = MIN_PRICES
        /\ fx.shape \in {"flat", "flatHigh"}) =>
            LET rsi == calculateRSI(fx.prices, 14)
                bb == calculateBollingerBands(fx.prices, 20, 2)
                stoch == calculateStochasticOscillator(fx.prices, 14)
            IN  /\ ~fx.dec.thrown
                /\ fx.op # "failed"
                /\ fx.dec.prediction = null \/ InRange(fx.dec.betSize, betMin, betMax)
                /\ fx.dec.prediction \in {"bull", "bear", null}
                /\ rsi[Len(rsi)] = Num(100 * SCALE)
                /\ bb.bands[Len(bb.bands)].upper = bb.bands[Len(bb.bands)].lower
                /\ isNaN(stoch.k[Len(stoch.k)])

C19_Witness ==
    /\ fx.op = "nextRow"
    /\ Len(fx.prices) = MIN_PRICES
    /\ fx.shape = "flat"
    /\ fx.env = [throwsAt |-> "none", rf |-> Num(0)]
    /\ fx.dec.prediction = "bear"
    /\ Len(fx.bets) = 1

\* C21: once the coordinator has been run, and run again after every
\* interrupted run, until no checkpoint remains, every round of the table has
\* been pushed through the row loop by some worker of some run.
C21_EveryRoundProcessed ==
    (coord.pc = "summary" /\ \A id \in WorkerIds : ~progress[id].present) =>
        \A o \in 1..Len(rounds) : rounds[o].roundId \in coord.processed \cup PushedRounds(wk)

\* C22: clearing the price window never changes a replay.  From the
\* WINDOW_SIZE-th round a worker pushes in its run on, the engine is called
\* for every round it pushes.
C22_ClearNeverChangesReplay ==
    \A id \in WorkerIds :
        \A k \in WINDOW_SIZE..Len(wk[id].pushed) : wk[id].pushed[k] \in wk[id].predicted

\* C23: a worker that reached Failed still has its checkpoint, and the
\* checkpoint holds the offset reached after the last batch whose checkpoint
\* write succeeded (the offset the worker started from when there is none).
C23_FailedKeepsCheckpoint ==
    \A id \in WorkerIds :
        wk[id].failed =>
            /\ progress[id].present
            /\ progress[id].lastProcessedOffset = wk[id].offset

\* C24: the checkpoint write after a batch stores, in the worker's own row,
\* the offset before the batch plus the number of rounds fetched, together
\* with processedCount, and touches no other row; no step ever lowers the
\* lastProcessedOffset of a row.
C24_CheckpointAdvances ==
    [][\A id \in WorkerIds :
        /\ (wk[id].pc = "checkpoint" /\ wk'[id].pc = "loop") =>
            /\ progress'[id].present
            /\ progress'[id].lastProcessedOffset = wk[id].offset + Len(wk[id].rows)
            /\ progress'[id].processedCount = wk[id].processedCount
            /\ progress'[id].endOffset = progress[id].endOffset
            /\ wk'[id].offset = progress'[id].lastProcessedOffset
            /\ \A j \in WorkerIds \ {id} : progress'[j] = progress[j]
        /\ (progress[id].present /\ progress'[id].present) =>
            progress'[id].lastProcessedOffset >= progress[id].lastProcessedOffset]_vars

C24_Witness ==
    \E id \in WorkerIds :
        /\ wk[id].pc = "loop"
        /\ progress[id].present
        /\ progress[id].lastProcessedOffset > wk[id].startOffset + BATCH_SIZE
        /\ progress[id].processedCount > 0
        /\ progress[id].processedCount # progress[id].lastProcessedOffset

\* The offset of a round in the table ordered by roundId.
OffsetOf(roundId) == CHOOSE o \in 0..(Len(rounds) - 1) : rounds[o + 1].roundId = roundId

\* C25: within one worker run the rounds are pushed in ascending offset
\* order without gap or repeat, the first one being the round at the offset
\* the worker starts from.
C25_PushedInOrder ==
    \A id \in WorkerIds :
        /\ Len(wk[id].pushed) > 0 => OffsetOf(wk[id].pushed[1]) = StartFrom(id)
        /\ \A k \in 1..(Len(wk[id].pushed) - 1) :
            OffsetOf(wk[id].pushed[k + 1]) = OffsetOf(wk[id].pushed[k]) + 1

C25_Witness ==
    \E id \in WorkerIds :
        /\ Done(id)
        /\ Len(wk[id].pushed) > BATCH_SIZE
        /\ wk[id].predicted # {}

C27_EventuallyDoneAndSummary ==
    [](faults = 0) =>
        <>(/\ coord.pc = "summary"
           /\ Cardinality(coord.launched) = numCPUs
           /\ coord.summary = getSummary(ledger)
           /\ \A d \in coord.launched :
                /\ Done(d.workerId)
                /\ wk[d.workerId].pc = "exited"
                /\ ~progress[d.workerId].present)

C27_Witness ==
    /\ coord.pc = "summary"
    /\ numCPUs = MaxCPUs
    /\ coord.summary.totalBets > 0
    /\ \A id \in WorkerIds : Done(id) /\ Len(wk[id].pushed) > 0

\* C28: a batch is fetched only on a memory reading under the ceiling.  On a
\* reading at or over it the worker pauses: nothing of the worker but its
\* position changes, no store changes, and the only thing the paused worker
\* does next is test the loop again.
C28_PauseChangesNothing ==
    [][\A id \in WorkerIds :
        /\ (wk[id].pc = "loop" /\ wk'[id].pc = "paused") =>
            /\ wk'[id].usageRatio >= MAX_RAM_USAGE
            /\ wk'[id] = [wk[id] EXCEPT !.pc = "paused", !.usageRatio = wk'[id].usageRatio]
            /\ progress' = progress
            /\ ledger' = ledger
        /\ (wk[id].pc = "paused" /\ wk'[id] # wk[id]) =>
            /\ progress' = progress
            /\ ledger' = ledger
            /\ \/ wk'[id] = [wk[id] EXCEPT !.pc = "loop"]
               \/ wk'[id].crashed
        /\ (wk[id].pc # "exited" /\ wk'[id].fetched # wk[id].fetched) =>
            /\ wk[id].pc = "loop"
            /\ wk'[id].usageRatio < MAX_RAM_USAGE]_vars

C28_Witness ==
    \E id \in WorkerIds :
        /\ wk[id].pc = "paused"
        /\ wk[id].usageRatio > MAX_RAM_USAGE
        /\ Len(wk[id].betRecords) > 0
        /\ progress[id].present
        /\ progress[id].lastProcessedOffset > wk[id].startOffset

\* The records the workers in ids generated in this run, as a bag.
RECURSIVE GeneratedBag(_)
GeneratedBag(ids) ==
    IF ids = {} THEN EmptyBag
    ELSE LET id == CHOOSE x \in ids : TRUE
         IN  SetToBag({g.bet : g \in wk[id].generated}) (+) GeneratedBag(ids \ {id})

C30_OwnRowAndWindow ==
    /\ [](\A d, e \in coord.launched : d.workerId = e.workerId => d = e)
    /\ [][(coord.pc = "waiting" /\ coord'.pc = "waiting") =>
            \A b \in WorkerIds :
                (progress'[b] # progress[b] \/ wk'[b].priceHistory # wk[b].priceHistory) =>
                    /\ wk'[b].pc # "exited"
                    /\ wk'[b] # wk[b]
                    /\ \A c \in WorkerIds \ {b} :
                        /\ progress'[c] = progress[c]
                        /\ wk'[c] = wk[c]]_vars

C30_Witness ==
    /\ coord.pc = "waiting"
    /\ \A id \in WorkerIds : progress[id].present /\ wk[id].priceHistory.length > 0
    /\ \E id \in WorkerIds : progress[id].lastProcessedOffset > wk[id].startOffset

C32_DirectionFromConfidence ==
    fx.op = "directed" =>
        LET c == fx.confidenceScore
            above == (c.k = "num" /\ c.v > bullConfidence) \/ (c.k = "inf" /\ c.v > 0)
            below == (c.k = "num" /\ c.v < bearConfidence) \/ (c.k = "inf" /\ c.v < 0)
            magnitude == IF c.k = "num" THEN Num(IF c.v < 0 THEN -c.v ELSE c.v)
                         ELSE IF c.k = "inf" THEN Infinity(1) ELSE NaN
        IN  /\ fx.dec.prediction = "bull" <=> above
            /\ fx.dec.prediction = "bear" <=> (~above /\ below)
            /\ fx.dec.prediction = null <=> (~above /\ ~below)
            /\ fx.dec.betSize = mapScoreToBetSize(magnitude)

C32_Witness ==
    /\ fx.op = "directed"
    /\ fx.confidenceScore = Num(minConfidence)
    /\ fx.dec.prediction = "bear"
    /\ fx.dec.betSize = mapScoreToBetSize(Num(maxConfidence))
    /\ fx.dec.betSize # mapScoreToBetSize(fx.confidenceScore)

\* C33: MACD pairs the fast and the slow EMA of the same price: macdLine has
\* as many entries as the slow EMA, every entry is a number, and the last
\* entry is the last fast EMA minus the last slow EMA.
C33_MacdAligned ==
    (fx.op = "calculated" /\ fx.fn = "MACD" /\ ~fx.result.isNull) =>
        LET fastEMA == calculateEMA(fx.prices, fx.period)
            slowEMA == calculateEMA(fx.prices, fx.period + 1)
            macdLine == fx.result.MACD
        IN  /\ Len(macdLine) = Len(slowEMA)
            /\ \A i \in 1..Len(macdLine) : ~isNaN(macdLine[i])
            /\ macdLine[Len(macdLine)] = fSub(fastEMA[Len(fastEMA)], slowEMA[Len(slowEMA)])

\* x <= y on numbers; false when either is NaN.
fLe(x, y) == fLt(x, y) \/ (~isNaN(x) /\ x = y)

\* C34: in every Bollinger band entry the deviation is the population
\* standard deviation of the `period` prices whose mean is the entry's
\* middle, so that lower <= middle <= upper, and no value is NaN.
C34_BandsAroundOwnWindow ==
    (fx.op = "calculated" /\ fx.fn = "Bollinger" /\ ~fx.result.isNull) =>
        \A j \in 1..Len(fx.result.bands) :
            LET band == fx.result.bands[j]
                window == SubSeq(fx.prices, j, j + fx.period - 1)
                std == calculateStandardDeviation(window)
            IN  /\ band.middle = fDiv(sum(window), Num(fx.period * SCALE))
                /\ band.upper = fAdd(band.middle, fMul(Num(2 * SCALE), std))
                /\ band.lower = fSub(band.middle, fMul(Num(2 * SCALE), std))
                /\ fLe(band.lower, band.middle)
                /\ fLe(band.middle, band.upper)
                /\ ~isNaN(band.upper) /\ ~isNaN(band.middle) /\ ~isNaN(band.lower)

\* The price delta i of a sequence: prices[i] - prices[i - 1] (JS indices).
Delta(prices, i) == fSub(At(prices, i), At(prices, i - 1))

\* The mean over deltas 1 .. period of the gains (side = 1) or the losses
\* (side = -1).
SeedAverage(prices, period, side) ==
    fDiv(sum([i \in 1..period |->
                 IF side = 1
                 THEN (IF fGt(Delta(prices, i), Num(0)) THEN Delta(prices, i) ELSE Num(0))
                 ELSE (IF fGt(Delta(prices, i), Num(0)) THEN Num(0)
                       ELSE mathAbs(Delta(prices, i)))]),
         Num(period * SCALE))

\* C35: the RSI values are those obtained by seeding the average gain and
\* the average loss from deltas 1 .. period and then applying the Wilder
\* update to deltas period + 1, period + 2, ... in order, once each.
C35_SeedFromFirstDeltas ==
    (fx.op = "calculated" /\ fx.fn = "RSI" /\ fx.result # <<>>) =>
        LET g == SeedAverage(fx.prices, fx.period, 1)
            l == SeedAverage(fx.prices, fx.period, -1)
        IN  fx.result =
                rsiLoop(fx.prices, fx.period, fx.period + 1, Len(fx.prices),
                        [averageGain |-> g, averageLoss |-> l,
                         rsiArray |-> <<rsiValueUnguarded(g, l)>>]).rsiArray

\* The average loss behind the first value calculateRSI emits (lines 16-28).
FirstAverageLoss(prices, period) ==
    fDiv(sum([i \in 1..period |->
                 IF fGt(Delta(prices, Len(prices) - i), Num(0)) THEN Num(0)
                 ELSE mathAbs(Delta(prices, Len(prices) - i))]),
         Num(period * SCALE))

\* C36: on at least period + 1 finite prices no RSI value is NaN, and the
\* first value is 100 when the average loss behind it is 0.
C36_RsiDefined ==
    (fx.op = "calculated" /\ fx.fn = "RSI" /\ Len(fx.prices) >= fx.period + 1) =>
        /\ Len(fx.result) > 0
        /\ \A i \in 1..Len(fx.result) : ~isNaN(fx.result[i])
        /\ FirstAverageLoss(fx.prices, fx.period) = Num(0) => fx.result[1] = Num(100 * SCALE)

\* The indicator values with every indicator but one replaced by NaN; the
\* price, which two of the rules compare against, stays.
OnlyIndicator(indicators, name) ==
    [RSI |-> IF name = "RSI" THEN indicators.RSI ELSE NaN,
     MACD |-> IF name = "MACD" THEN indicators.MACD ELSE NaN,
     Signal |-> IF name = "MACD" THEN indicators.Signal ELSE NaN,
     price |-> indicators.price,
     bollingerBands |-> IF name = "Bollinger" THEN indicators.bollingerBands
                        ELSE [upper |-> NaN, middle |-> NaN, lower |-> NaN],
     stochastic |-> IF name = "Stochastic" THEN indicators.stochastic
                    ELSE [percentK |-> NaN, percentD |-> NaN],
     SMA20 |-> IF name = "SMA/EMA" THEN indicators.SMA20 ELSE NaN,
     EMA20 |-> IF name = "SMA/EMA" THEN indicators.EMA20 ELSE NaN]

\* C37: the score is the sum of what each of the five indicators contributes
\* by itself (the others being NaN), each contribution is an integer of
\* -2 .. 2, the score lies in -7 .. 7, and with every indicator NaN it is 0.
C37_SumOfBoundedContributions ==
    fx.op = "technicalScore" =>
        LET Contribution(name) == calculateConfidence(OnlyIndicator(fx.indicators, name))
        IN  /\ fx.score = Contribution("RSI") + Contribution("MACD") + Contribution("Bollinger")
                            + Contribution("Stochastic") + Contribution("SMA/EMA")
            /\ \A name \in {"RSI", "MACD", "Bollinger", "Stochastic", "SMA/EMA"} :
                  Contribution(name) \in (-2)..2
            /\ fx.score \in (-7)..7
            /\ calculateConfidence(OnlyIndicator(fx.indicators, "none")) = 0

C37_Witness ==
    /\ fx.op = "technicalScore"
    /\ fx.score = 4
    /\ fx.indicators.RSI = Num(20 * SCALE)
    /\ fGt(fx.indicators.MACD, fx.indicators.Signal)
    /\ isNaN(fx.indicators.bollingerBands.lower)
    /\ isNaN(fx.indicators.stochastic.percentK)
    /\ isNaN(fx.indicators.SMA20)

\* C38 as stated: the labels of a window of n >= 1 prices are n - 1, and
\* label i (from 0) is 1 iff window[i + 1] > window[i].
C38_LabelsOneFewer ==
    (fx.op = "labelled" /\ Len(fx.prices) >= 1) =>
        /\ Len(fx.labels) = Len(fx.prices) - 1
        /\ \A i \in 0..(Len(fx.labels) - 1) :
              fx.labels[i + 1] = 1 <=> fGt(At(fx.prices, i + 1), At(fx.prices, i))

\* C38, amended: the labels of a window of n prices are n - 50 (none for
\* n <= 50), one per feature row; label i (from 0) is 1 iff
\* window[i + 50] > window[i + 49], else 0.
C38_LabelsPerFeatureRow ==
    fx.op = "labelled" =>
        /\ Len(fx.labels) = (IF Len(fx.prices) > FEATURE_WINDOW
                              THEN Len(fx.prices) - FEATURE_WINDOW ELSE 0)
        /\ Len(fx.prices) > FEATURE_WINDOW + 1 => Len(fx.labels) = prepareFeatures(fx.prices)
        /\ \A i \in 0..(Len(fx.labels) - 1) :
              /\ fx.labels[i + 1] \in {0, 1}
              /\ fx.labels[i + 1] = 1 <=>
                    fGt(At(fx.prices, i + FEATURE_WINDOW), At(fx.prices, i + FEATURE_WINDOW - 1))

C38_Witness ==
    /\ fx.op = "labelled"
    /\ fx.shape = "zigzag"
    /\ Len(fx.prices) = MIN_PRICES
    /\ Len(fx.labels) = MIN_PRICES - FEATURE_WINDOW
    /\ fx.labels[1] = 1
    /\ fx.labels[2] = 0

\* JS ToNumber on a count that may be NULL: null counts as 0 in a sum.
ToNumber(x) == IF x.isNull THEN 0 ELSE x.n

\* The profit of a worker's record from its stake and outcome (line 143).
RECURSIVE StakeProfit(_, _)
StakeProfit(bag, S) ==
    IF S = {} THEN 0
    ELSE LET b == CHOOSE x \in S : TRUE
         IN  CopiesIn(b, bag) * (IF b.outcome = "win" THEN b.betSize * 95
                                 ELSE -(b.betSize * 100))
                 + StakeProfit(bag, S \ {b})

\* C39: whatever batches the workers have appended, the summary of the
\* ledger has totalBets = totalWins + totalLosses and totalProfitBNB = the
\* sum of the profits of the records; for an empty ledger both are 0.  The
\* summary the coordinator takes is that of the ledger.
C39_SummaryAddsUp ==
    LET s == getSummary(ledger)
    IN  /\ s.totalBets = ToNumber(s.totalWins) + ToNumber(s.totalLosses)
        /\ s.totalProfitBNB = StakeProfit(ledger, BagToSet(ledger))
        /\ ledger = EmptyBag => (s.totalBets = 0 /\ s.totalProfitBNB = 0)
        /\ coord.pc = "summary" =>
              /\ coord.summary = s
              /\ coord.summary.totalBets =
                    ToNumber(coord.summary.totalWins) + ToNumber(coord.summary.totalLosses)

C39_Witness ==
    /\ coord.pc = "summary"
    /\ runs > 1
    /\ coord.summary.totalBets >= 3
    /\ ToNumber(coord.summary.totalWins) > 0
    /\ ToNumber(coord.summary.totalLosses) > 0
    /\ coord.summary.totalProfitBNB # 0

====
